---------------------------- MODULE Spec2Model ----------------------------
(***************************************************************************)
(* emtmlibpy: the ctypes binding of libEMTMLib.so.                         *)
(*                                                                         *)
(* The binding operations (em_create, em_add_point, em_point_count, ...)   *)
(* are the actions; each calls exactly one native function (EMCreate,      *)
(* EMAddPoint, EMPointCount, ...) and builds its Python return value from  *)
(* the native result.  The native library is closed source: its functions  *)
(* are modelled from the documented contract (the docstrings of the        *)
(* binding and the specification), as operators that map the library's     *)
(* state to the set of outcomes the contract allows.                       *)
(***************************************************************************)
EXTENDS Integers, Sequences, FiniteSets, TLC

VARIABLES
    lib,    \* the native library's state and the files it reads and writes
    call,   \* the last binding call: operation, arguments, Python return value
    callers \* the locks the callers hold and their count-then-read sequences

vars == <<lib, call, callers>>

(***************************************************************************)
(* Bounds of the model.                                                    *)
(***************************************************************************)
\* Most records (points + 3D points + lengths) held at a time: those the
\* library holds in memory, all file-handle ids together, and those of the
\* file the callers have written.
MaxRecs == 2

\* File-handle ids the callers use.
Handles == {0, 1}

\* The record kinds of the indexed enumeration protocol.
Kinds == {"point", "point3d", "length"}

(***************************************************************************)
(* EMTMResult.                                                             *)
(***************************************************************************)
ok == 0
failed == 1
invalid_licence == 2
invalid_index == 3
buffer_too_small == 4
invalid_id == 5

EMTMResult == {ok, failed, invalid_licence, invalid_index, buffer_too_small, invalid_id}

(***************************************************************************)
(* Texts.  A text is a sequence of characters.  The library exchanges      *)
(* texts as C strings: a C string ends at its first NUL, and a buffer of   *)
(* capacity n holds a text of fewer than n characters and its NUL.         *)
(***************************************************************************)
\* The capacity of the text buffers the binding allocates by default.
EMTM_MAX_CHARS == 1024

NUL == "NUL"

\* bytes(s, 'UTF-8') passed as a char pointer: the text up to its first NUL.
CString(t) ==
    LET nuls == {i \in 1 .. Len(t) : t[i] = NUL} IN
    IF nuls = {} THEN t
    ELSE SubSeq(t, 1, (CHOOSE i \in nuls : \A j \in nuls : i <= j) - 1)

\* ctypes.create_string_buffer(n): n zero bytes, the empty text.
create_string_buffer(n) == <<>>

\* The library copies a text into the caller's buffer p_str, of which it was
\* told the capacity nBuffSz: the whole text when it fits with its NUL,
\* otherwise the longest prefix that does, reported as buffer_too_small.
TextOut(text, nBuffSz, p_str) ==
    IF Len(text) < nBuffSz THEN [text |-> text, r |-> ok]
    ELSE IF nBuffSz >= 1
    THEN [text |-> SubSeq(text, 1, nBuffSz - 1), r |-> buffer_too_small]
    ELSE [text |-> p_str, r |-> buffer_too_small]

(***************************************************************************)
(* Record layouts (the fields the add contract reads and the tests compare)*)
(***************************************************************************)
\* EmPointData() with the constructor's defaults.
EmPointData ==
    [str_op_code |-> "", str_filename |-> "", n_frame |-> 0,
     d_imx |-> 0, d_imy |-> 0, d_rectx |-> 0, d_recty |-> 0,
     str_family |-> <<>>, str_genus |-> <<>>, str_species |-> <<>>]

\* Em3DPpointData() with the constructor's defaults.
Em3DPpointData ==
    [str_op_code |-> "", str_filename_left |-> "", str_filename_right |-> "",
     n_frame_left |-> 0, n_frame_right |-> 0,
     d_imx_left |-> 0, d_imy_left |-> 0, d_imx_right |-> 0, d_imy_right |-> 0,
     str_family |-> <<>>, str_genus |-> <<>>, str_species |-> <<>>]

\* EmLengthData() with the constructor's defaults.
EmLengthData ==
    [str_op_code |-> "", str_filename_left |-> "", str_filename_right |-> "",
     n_frame_left |-> 0, n_frame_right |-> 0, b_compound_length |-> FALSE,
     d_imx1_left |-> 0, d_imy1_left |-> 0, d_imx1_right |-> 0, d_imy1_right |-> 0,
     d_imx2_left |-> 0, d_imy2_left |-> 0, d_imx2_right |-> 0, d_imy2_right |-> 0,
     str_family |-> <<>>, str_genus |-> <<>>, str_species |-> <<>>]

(***************************************************************************)
(* Inputs: the records the callers pass to the add operations.  Two valid  *)
(* records of op code "A" that differ in every field, one of op code "B",  *)
(* and for every condition of the add contract a record that breaks only   *)
(* that condition.                                                         *)
(***************************************************************************)
\* Family, genus and species of the records that carry a taxonomy.
Fa == <<"F", "a">>
Ge == <<"G", "e">>
Sp == <<"S", "p">>

PointA1 ==
    [str_op_code |-> "A", str_filename |-> "f", n_frame |-> 0,
     d_imx |-> 0, d_imy |-> 0, d_rectx |-> 0, d_recty |-> 0,
     str_family |-> <<>>, str_genus |-> <<>>, str_species |-> <<>>]
PointA2 ==
    [str_op_code |-> "A", str_filename |-> "g", n_frame |-> 7,
     d_imx |-> 4, d_imy |-> 9, d_rectx |-> 2, d_recty |-> 3,
     str_family |-> Fa, str_genus |-> Ge, str_species |-> Sp]
PointB == [PointA2 EXCEPT !.str_op_code = "B"]

ValidPoints == {PointA1, PointA2, PointB}
InvalidPoints ==
    {[PointA2 EXCEPT !.str_op_code = ""],
     [PointA2 EXCEPT !.str_filename = ""],
     [PointA2 EXCEPT !.n_frame = -1],
     [PointA2 EXCEPT !.d_imx = -1],
     [PointA2 EXCEPT !.d_imy = -1]}
PointInputs == ValidPoints \cup InvalidPoints

Point3DA1 ==
    [str_op_code |-> "A", str_filename_left |-> "l", str_filename_right |-> "r",
     n_frame_left |-> 0, n_frame_right |-> 0,
     d_imx_left |-> 0, d_imy_left |-> 0, d_imx_right |-> 0, d_imy_right |-> 0,
     str_family |-> <<>>, str_genus |-> <<>>, str_species |-> <<>>]
Point3DA2 ==
    [str_op_code |-> "A", str_filename_left |-> "m", str_filename_right |-> "s",
     n_frame_left |-> 7, n_frame_right |-> 8,
     d_imx_left |-> 4, d_imy_left |-> 9, d_imx_right |-> 5, d_imy_right |-> 6,
     str_family |-> Fa, str_genus |-> Ge, str_species |-> Sp]
Point3DB == [Point3DA2 EXCEPT !.str_op_code = "B"]

Valid3DPoints == {Point3DA1, Point3DA2, Point3DB}
Invalid3DPoints ==
    {[Point3DA2 EXCEPT !.str_op_code = ""],
     [Point3DA2 EXCEPT !.str_filename_left = ""],
     [Point3DA2 EXCEPT !.str_filename_right = ""],
     [Point3DA2 EXCEPT !.n_frame_left = -1],
     [Point3DA2 EXCEPT !.n_frame_right = -1],
     [Point3DA2 EXCEPT !.d_imx_left = -1],
     [Point3DA2 EXCEPT !.d_imy_left = -1],
     [Point3DA2 EXCEPT !.d_imx_right = -1],
     [Point3DA2 EXCEPT !.d_imy_right = -1]}
Point3DInputs == Valid3DPoints \cup Invalid3DPoints

LengthA1 ==
    [str_op_code |-> "A", str_filename_left |-> "l", str_filename_right |-> "r",
     n_frame_left |-> 0, n_frame_right |-> 0, b_compound_length |-> FALSE,
     d_imx1_left |-> 0, d_imy1_left |-> 0, d_imx1_right |-> 0, d_imy1_right |-> 0,
     d_imx2_left |-> 0, d_imy2_left |-> 0, d_imx2_right |-> 0, d_imy2_right |-> 0,
     str_family |-> <<>>, str_genus |-> <<>>, str_species |-> <<>>]
LengthA2 ==
    [str_op_code |-> "A", str_filename_left |-> "m", str_filename_right |-> "s",
     n_frame_left |-> 7, n_frame_right |-> 8, b_compound_length |-> FALSE,
     d_imx1_left |-> 4, d_imy1_left |-> 9, d_imx1_right |-> 5, d_imy1_right |-> 6,
     d_imx2_left |-> 1, d_imy2_left |-> 2, d_imx2_right |-> 3, d_imy2_right |-> 8,
     str_family |-> Fa, str_genus |-> Ge, str_species |-> Sp]
LengthB == [LengthA2 EXCEPT !.str_op_code = "B"]

ValidLengths == {LengthA1, LengthA2, LengthB}
InvalidLengths ==
    {[LengthA2 EXCEPT !.str_op_code = ""],
     [LengthA2 EXCEPT !.str_filename_left = ""],
     [LengthA2 EXCEPT !.str_filename_right = ""],
     [LengthA2 EXCEPT !.n_frame_left = -1],
     [LengthA2 EXCEPT !.n_frame_right = -1],
     [LengthA2 EXCEPT !.b_compound_length = TRUE],
     [LengthA2 EXCEPT !.d_imx1_left = -1],
     [LengthA2 EXCEPT !.d_imy1_left = -1],
     [LengthA2 EXCEPT !.d_imx1_right = -1],
     [LengthA2 EXCEPT !.d_imy1_right = -1],
     [LengthA2 EXCEPT !.d_imx2_left = -1],
     [LengthA2 EXCEPT !.d_imy2_left = -1],
     [LengthA2 EXCEPT !.d_imx2_right = -1],
     [LengthA2 EXCEPT !.d_imy2_right = -1]}
LengthInputs == ValidLengths \cup InvalidLengths

\* Licence keys: the pair <<"k1", "k2">> is the valid one.
Keys == {"k1", "k2"}

\* Paths: "fix" is the read-only .EMObs file the callers have; "tmp" can be
\* written, and read once written; "none" names no file and lies in no
\* writable directory.
Paths == {"fix", "tmp", "none"}
Writable == {"tmp"}

\* Indices the callers pass to the indexed gets.
Indices == 0 .. MaxRecs

\* Header and data the callers pass to em_info_set: a short header, and as
\* data a short text, a text with a NUL in it and a text of EMTM_MAX_CHARS
\* characters, which no default buffer holds with its NUL.
Hdr == <<"h", "d", "r">>
Val == <<"v", "a", "l">>
ValNul == <<"v", NUL, "l">>
LongText == [i \in 1 .. EMTM_MAX_CHARS |-> "x"]
InfoTexts == {Val, ValNul, LongText}

\* Buffer capacities the callers pass: one character, and the default.
BuffSizes == {1, EMTM_MAX_CHARS}

\* Values the library may read as a capacity that was never passed.
UnpassedSizes == {0, 2, EMTM_MAX_CHARS}

(***************************************************************************)
(* The native library's state.                                             *)
(*   licensed  the process-wide licence activation                         *)
(*   data      the EventMeasure data set held at each file-handle id       *)
(*   index     per id and record kind, the indexed mapping the count call  *)
(*             built: the records it maps, in index order (none before the *)
(*             first count call and after the mapping is dropped)          *)
(*   fgs       per id, the list of unique family, genus, species triples   *)
(*             the EMUniqueFGS call built (none before the first call and  *)
(*             after a load or clear)                                      *)
(*   tm        the ids that hold loaded TransectMeasure data               *)
(*   files     the .EMObs file at each path, or NoFile                     *)
(***************************************************************************)
\* A path holds no file, or the file that holds one data set.
NoFile == {}
FileOf(d) == {d}
Contents(file) == CHOOSE d \in file : TRUE

\* The information fields of a data set: header and data per index.  The
\* headers of the indices 0..3 are fixed by the library.
InfoIndices == 0 .. 4
FixedHeader(i) ==
    CASE i = 0 -> <<"O", "p", "C", "o", "d", "e">>
      [] i = 1 -> <<"T", "a", "p", "e", "R", "e", "a", "d", "e", "r">>
      [] i = 2 -> <<"D", "e", "p", "t", "h">>
      [] i = 3 -> <<"C", "o", "m", "m", "e", "n", "t">>
      [] OTHER -> <<>>
NoInfo == [i \in InfoIndices |-> [header |-> FixedHeader(i), data |-> <<>>]]

EmptyData ==
    [points |-> <<>>, points3d |-> <<>>, lengths |-> <<>>, info |-> NoInfo,
     units |-> <<>>]

NoIndex == [k \in Kinds |-> <<>>]

\* The file the callers have: written by EventMeasure, it holds a compound
\* length, which no add operation accepts, and one information field more
\* than a data set the library creates.
LengthC == [LengthA1 EXCEPT !.b_compound_length = TRUE]
Fixture ==
    [points |-> <<>>, points3d |-> <<>>, lengths |-> <<LengthC>>,
     info |-> [i \in 0 .. 5 |->
                [header |-> FixedHeader(i),
                 data |-> CASE i = 0 -> <<"A">>
                            [] i = 1 -> <<"J", "i", "m">>
                            [] OTHER -> <<>>]],
     units |-> <<"m", "m">>]

InitLib ==
    [licensed |-> FALSE,
     data     |-> [h \in Handles |-> EmptyData],
     index    |-> [h \in Handles |-> NoIndex],
     fgs      |-> [h \in Handles |-> <<>>],
     tm       |-> {},
     files    |-> [f \in Paths |-> IF f = "fix" THEN FileOf(Fixture) ELSE NoFile]]

\* The number of records of all kinds in a data set, and in the library.
Size(d) == Len(d.points) + Len(d.points3d) + Len(d.lengths)

RECURSIVE SumSize(_, _)
SumSize(data, ids) ==
    IF ids = {} THEN 0
    ELSE LET h == CHOOSE x \in ids : TRUE
         IN Size(data[h]) + SumSize(data, ids \ {h})

Written(L) ==
    IF L.files["tmp"] = NoFile THEN 0 ELSE Size(Contents(L.files["tmp"]))

Held(L) == SumSize(L.data, Handles) + Written(L)

Range(s) == {s[i] : i \in 1 .. Len(s)}

\* The op codes of the measurements a data set already holds.
OpCodes(d) ==
    {p.str_op_code : p \in Range(d.points) \cup Range(d.points3d) \cup Range(d.lengths)}

\* A point with a rectangle is a bounding box.
IsBox(p) == p.d_rectx > 0 \/ p.d_recty > 0

CountOf(s, P(_)) == Cardinality({i \in 1 .. Len(s) : P(s[i])})

IsCompound(l) == l.b_compound_length

(***************************************************************************)
(* The native functions.  Each maps the library state (and its arguments)  *)
(* to the set of outcomes [lib, r, ...]: the state after the call, the     *)
(* value returned and the values written through the out-parameters.       *)
(***************************************************************************)
EMTMSetLicenceKeys(L, key1, key2) ==
    IF key1 = "k1" /\ key2 = "k2"
    THEN {[lib |-> [L EXCEPT !.licensed = TRUE], r |-> 1]}
    ELSE {[lib |-> L, r |-> 0]}

EMTMLicencePresent(L) == {[lib |-> L, r |-> IF L.licensed THEN 1 ELSE 0]}

EMCreate(L, id) ==
    {[lib |-> [L EXCEPT !.data[id] = EmptyData, !.index[id] = NoIndex,
                        !.fgs[id] = <<>>],
      r |-> 0]}

EMRemoveAll(L) ==
    {[lib |-> [L EXCEPT !.data = [h \in Handles |-> EmptyData],
                        !.index = [h \in Handles |-> NoIndex],
                        !.fgs = [h \in Handles |-> <<>>]],
      r |-> 0]}

\* A failed read may leave the data set as it was or cleared.
EMLoadData(L, id, filename) ==
    IF ~L.licensed THEN {[lib |-> L, r |-> invalid_licence]}
    ELSE IF L.files[filename] = NoFile
    THEN {[lib |-> L, r |-> failed],
          [lib |-> [L EXCEPT !.data[id] = EmptyData, !.index[id] = NoIndex,
                             !.fgs[id] = <<>>],
           r |-> failed]}
    ELSE {[lib |-> [L EXCEPT !.data[id] = Contents(L.files[filename]),
                             !.index[id] = NoIndex, !.fgs[id] = <<>>],
           r |-> ok]}

EMWriteData(L, id, filename) ==
    IF ~L.licensed THEN {[lib |-> L, r |-> invalid_licence]}
    ELSE IF filename \notin Writable THEN {[lib |-> L, r |-> failed]}
    ELSE {[lib |-> [L EXCEPT !.files[filename] = FileOf(L.data[id])], r |-> ok]}

\* "t" is the TransectMeasure file the callers have.
TMLoadData(L, id, filename) ==
    IF ~L.licensed THEN {[lib |-> L, r |-> invalid_licence]}
    ELSE IF filename # "t" THEN {[lib |-> L, r |-> failed]}
    ELSE {[lib |-> [L EXCEPT !.tm = @ \cup {id}], r |-> ok]}

ValidPoint(d) ==
    /\ d.str_op_code # ""
    /\ d.str_filename # ""
    /\ d.n_frame >= 0
    /\ d.d_imx >= 0 /\ d.d_imy >= 0

Valid3DPoint(d) ==
    /\ d.str_op_code # ""
    /\ d.str_filename_left # "" /\ d.str_filename_right # ""
    /\ d.n_frame_left >= 0 /\ d.n_frame_right >= 0
    /\ d.d_imx_left >= 0 /\ d.d_imy_left >= 0
    /\ d.d_imx_right >= 0 /\ d.d_imy_right >= 0

ValidLength(d) ==
    /\ d.str_op_code # ""
    /\ d.str_filename_left # "" /\ d.str_filename_right # ""
    /\ d.n_frame_left >= 0 /\ d.n_frame_right >= 0
    /\ ~d.b_compound_length
    /\ d.d_imx1_left >= 0 /\ d.d_imy1_left >= 0
    /\ d.d_imx1_right >= 0 /\ d.d_imy1_right >= 0
    /\ d.d_imx2_left >= 0 /\ d.d_imy2_left >= 0
    /\ d.d_imx2_right >= 0 /\ d.d_imy2_right >= 0

\* The record's op code is that of the measurements already held.
SameOpCode(L, id, d) == OpCodes(L.data[id]) \subseteq {d.str_op_code}

EMAddPoint(L, id, d) ==
    IF ValidPoint(d) /\ SameOpCode(L, id, d)
    THEN {[lib |-> [L EXCEPT !.data[id].points = Append(@, d),
                             !.index[id]["point"] = <<>>],
           r |-> ok]}
    ELSE {[lib |-> L, r |-> failed]}

EMAdd3DPoint(L, id, d) ==
    IF Valid3DPoint(d) /\ SameOpCode(L, id, d)
    THEN {[lib |-> [L EXCEPT !.data[id].points3d = Append(@, d),
                             !.index[id]["point3d"] = <<>>],
           r |-> ok]}
    ELSE {[lib |-> L, r |-> failed]}

EMAddLength(L, id, d) ==
    IF ValidLength(d) /\ SameOpCode(L, id, d)
    THEN {[lib |-> [L EXCEPT !.data[id].lengths = Append(@, d),
                             !.index[id]["length"] = <<>>],
           r |-> ok]}
    ELSE {[lib |-> L, r |-> failed]}

\* The information field n_index with the header and data given; the
\* library forces the headers of the indices 0..3.
InfoStored(L, id, n_index, header, data) ==
    [L EXCEPT !.data[id].info[n_index] =
        [header |-> IF n_index <= 3 THEN FixedHeader(n_index) ELSE header,
         data |-> data]]

\* Texts that fit a buffer of nBuffSz characters are stored as passed.  What
\* the library does with a longer text is not documented: it may store it
\* whole, store the prefix that fits, or refuse it.
EMInfoSet(L, id, n_index, header, data, nBuffSz) ==
    IF n_index \notin DOMAIN L.data[id].info THEN {[lib |-> L, r |-> invalid_index]}
    ELSE IF Len(header) < nBuffSz /\ Len(data) < nBuffSz
    THEN {[lib |-> InfoStored(L, id, n_index, header, data), r |-> ok]}
    ELSE {[lib |-> InfoStored(L, id, n_index, header, data), r |-> ok],
          [lib |-> InfoStored(L, id, n_index, TextOut(header, nBuffSz, <<>>).text,
                                              TextOut(data, nBuffSz, <<>>).text),
           r |-> ok],
          [lib |-> L, r |-> buffer_too_small]}

\* Writes header and data through the two buffers the caller passes, each of
\* nBuffSz characters.
EMInfoGet(L, id, n_index, p_str_header, p_str_data, nBuffSz) ==
    IF n_index \in DOMAIN L.data[id].info
    THEN LET header == TextOut(L.data[id].info[n_index].header, nBuffSz, p_str_header)
             data == TextOut(L.data[id].info[n_index].data, nBuffSz, p_str_data)
         IN {[lib |-> L,
              r |-> IF header.r = ok THEN data.r ELSE header.r,
              p_str_header |-> header.text,
              p_str_data |-> data.text]}
    ELSE {[lib |-> L, r |-> invalid_index,
           p_str_header |-> p_str_header, p_str_data |-> p_str_data]}

\* The number of information fields of the data set at id: the indices below
\* it are the ones EMInfoGet and EMInfoSet accept.
EMInfoCount(L, id) ==
    {[lib |-> L, r |-> Cardinality(DOMAIN L.data[id].info)]}

\* Writes the units of the 3D measurements through the buffer p_str_units,
\* which the library takes to hold nBuffSz characters.  capacity is what the
\* buffer holds in fact: a text written past it has overflowed the buffer,
\* and the buffer then holds the first capacity characters of it.
EMUnits(L, id, p_str_units, capacity, nBuffSz) ==
    LET units == TextOut(L.data[id].units, nBuffSz, p_str_units) IN
    IF Len(units.text) < capacity
    THEN {[lib |-> L, r |-> units.r, p_str_units |-> units.text, overflow |-> FALSE]}
    ELSE {[lib |-> L, r |-> units.r,
           p_str_units |-> SubSeq(units.text, 1, capacity), overflow |-> TRUE]}

\* The count calls build the indexed mapping of their kind.
EMPointCount(L, id) ==
    {[lib |-> [L EXCEPT !.index[id]["point"] = L.data[id].points],
      r |-> Len(L.data[id].points),
      pn_bbox |-> CountOf(L.data[id].points, IsBox)]}

EM3DPointCount(L, id) ==
    {[lib |-> [L EXCEPT !.index[id]["point3d"] = L.data[id].points3d],
      r |-> Len(L.data[id].points3d)]}

EMLengthCount(L, id) ==
    {[lib |-> [L EXCEPT !.index[id]["length"] = L.data[id].lengths],
      r |-> Len(L.data[id].lengths),
      pn_compound |-> CountOf(L.data[id].lengths, IsCompound)]}

(***************************************************************************)
(* An indexed get writes the record through its out-parameter p.  Within   *)
(* the protocol (0 <= index < the count the mapping was built with) it     *)
(* writes the record the mapping holds at the index.  Outside it the       *)
(* native contract leaves the result undefined: the call may report        *)
(* invalid_index and leave p as the caller passed it, or report ok and     *)
(* write any record of the kind it holds.                                  *)
(***************************************************************************)
IndexedGet(L, id, kind, recs, n_index, p) ==
    LET map == L.index[id][kind] IN
    IF n_index >= 0 /\ n_index < Len(map)
    THEN {[lib |-> L, r |-> ok, p |-> map[n_index + 1]]}
    ELSE {[lib |-> L, r |-> invalid_index, p |-> p]}
         \cup {[lib |-> L, r |-> ok, p |-> q] : q \in Range(recs)}

EMGetPoint(L, id, n_index, p) ==
    IndexedGet(L, id, "point", L.data[id].points, n_index, p)

EMGet3DPoint(L, id, n_index, p) ==
    IndexedGet(L, id, "point3d", L.data[id].points3d, n_index, p)

EMGetLength(L, id, n_index, p) ==
    IndexedGet(L, id, "length", L.data[id].lengths, n_index, p)

(***************************************************************************)
(* Family, genus and species.  The library compares and lists the three    *)
(* texts of a measurement in lower case; "*" as an argument of             *)
(* EMMeasurementCountFGS matches any value.                                *)
(***************************************************************************)
UpperCase ==
    <<"A", "B", "C", "D", "E", "F", "G", "H", "I", "J", "K", "L", "M",
      "N", "O", "P", "Q", "R", "S", "T", "U", "V", "W", "X", "Y", "Z">>
LowerCase ==
    <<"a", "b", "c", "d", "e", "f", "g", "h", "i", "j", "k", "l", "m",
      "n", "o", "p", "q", "r", "s", "t", "u", "v", "w", "x", "y", "z">>

ToLower(t) ==
    [i \in 1 .. Len(t) |->
        IF \E k \in 1 .. Len(UpperCase) : UpperCase[k] = t[i]
        THEN LowerCase[CHOOSE k \in 1 .. Len(UpperCase) : UpperCase[k] = t[i]]
        ELSE t[i]]

ToUpper(t) ==
    [i \in 1 .. Len(t) |->
        IF \E k \in 1 .. Len(LowerCase) : LowerCase[k] = t[i]
        THEN UpperCase[CHOOSE k \in 1 .. Len(LowerCase) : LowerCase[k] = t[i]]
        ELSE t[i]]

Star == <<"*">>

\* The measurements of all kinds a data set holds, by position.
Measurements(d) ==
    {<<"point", i>> : i \in 1 .. Len(d.points)}
        \cup {<<"point3d", i>> : i \in 1 .. Len(d.points3d)}
        \cup {<<"length", i>> : i \in 1 .. Len(d.lengths)}

Record(d, m) ==
    CASE m[1] = "point" -> d.points[m[2]]
      [] m[1] = "point3d" -> d.points3d[m[2]]
      [] m[1] = "length" -> d.lengths[m[2]]

\* The lower-case (family, genus, species) triple of a record.
Taxon(rec) ==
    <<ToLower(rec.str_family), ToLower(rec.str_genus), ToLower(rec.str_species)>>

Taxa(d) == {Taxon(Record(d, m)) : m \in Measurements(d)}

\* The orders in which a set can be listed.
Listings(S) ==
    {l \in [1 .. Cardinality(S) -> S] : \A i, j \in DOMAIN l : l[i] = l[j] => i = j}

\* Builds the list of unique triples, in an order the contract leaves open,
\* and returns its length.
EMUniqueFGS(L, id) ==
    {[lib |-> [L EXCEPT !.fgs[id] = l], r |-> Len(l)] : l \in Listings(Taxa(L.data[id]))}

\* Writes the triple at n_index of the list through the three buffers, each
\* of nBuffSz characters; outside the list the result is undefined, as for
\* the indexed gets.
EMGetUniqueFGS(L, id, n_index, p_str_family, p_str_genus, p_str_species, nBuffSz) ==
    LET list == L.fgs[id]
        Out(t) ==
            LET family == TextOut(t[1], nBuffSz, p_str_family)
                genus == TextOut(t[2], nBuffSz, p_str_genus)
                species == TextOut(t[3], nBuffSz, p_str_species)
            IN [lib |-> L,
                r |-> IF {family.r, genus.r, species.r} = {ok}
                      THEN ok ELSE buffer_too_small,
                p_str_family |-> family.text, p_str_genus |-> genus.text,
                p_str_species |-> species.text]
    IN IF n_index >= 0 /\ n_index < Len(list)
       THEN {Out(list[n_index + 1])}
       ELSE {[lib |-> L, r |-> invalid_index, p_str_family |-> p_str_family,
              p_str_genus |-> p_str_genus, p_str_species |-> p_str_species]}
            \cup {Out(t) : t \in Taxa(L.data[id])}

\* Faulty variant: the texts are compared as they are, case included.
MatchesCase(arg, text) == arg = Star \/ arg = text

\* An argument matches a stored text when it is "*" or equals it but for case.
Matches(arg, text) == arg = Star \/ ToLower(arg) = ToLower(text)

\* Faulty variant: counting rebuilds the library's tables and drops the
\* indexed mappings of the file-handle id.
EMMeasurementCountFGSDropping(L, id, family, genus, species) ==
    {[lib |-> [L EXCEPT !.index[id] = NoIndex], r |-> ok,
      pn_point |-> 0, pn_box |-> 0, pn_3d_point |-> 0,
      pn_length |-> 0, pn_cpd_length |-> 0]}

\* Counts the measurements whose family, genus and species match: points
\* that are no bounding boxes, bounding boxes, 3D points, lengths that are
\* not compound, and compound lengths.
EMMeasurementCountFGS(L, id, family, genus, species) ==
    LET d == L.data[id]
        Hit(rec) ==
            /\ Matches(family, rec.str_family)
            /\ Matches(genus, rec.str_genus)
            /\ Matches(species, rec.str_species)
        Point(rec) == Hit(rec) /\ ~IsBox(rec)
        Box(rec) == Hit(rec) /\ IsBox(rec)
        Length(rec) == Hit(rec) /\ ~IsCompound(rec)
        CpdLength(rec) == Hit(rec) /\ IsCompound(rec)
    IN {[lib |-> L, r |-> ok,
         pn_point |-> CountOf(d.points, Point),
         pn_box |-> CountOf(d.points, Box),
         pn_3d_point |-> CountOf(d.points3d, Hit),
         pn_length |-> CountOf(d.lengths, Length),
         pn_cpd_length |-> CountOf(d.lengths, CpdLength)]}

(***************************************************************************)
(* The binding functions.  Each calls its native function once and builds  *)
(* the Python value it returns from the native outcome o: f_result(o) is   *)
(* the return expression of f.  An outcome [lib, ret, native] of a binding *)
(* function holds the library state after the call, the value returned to  *)
(* the caller (ret) and, for reference, the value the native function      *)
(* returned (native).                                                      *)
(***************************************************************************)
None == "None"

Returned(o, ret) == [lib |-> o.lib, ret |-> ret, native |-> o.r]

\* EMTMResult(r): the enumeration member, or ValueError for another integer.
ToEMTMResult(r) == IF r \in EMTMResult THEN r ELSE "ValueError"

\* Faulty variant: the comparison is the wrong way round.
emtm_licence_present_negated(o) == o.r # 1

emtm_licence_present_result(o) == o.r = 1

emtm_licence_present(L) ==
    {Returned(o, emtm_licence_present_result(o)) : o \in EMTMLicencePresent(L)}

emtm_set_licence_keys_result(o) == o.r

emtm_set_licence_keys(L, key1, key2) ==
    {Returned(o, emtm_set_licence_keys_result(o)) : o \in EMTMSetLicenceKeys(L, key1, key2)}

\* Faulty variant: the result code is reduced to success or failure.
em_load_data_as_flag(o) == IF o.r = ok THEN ok ELSE failed

em_load_data_result(o) == o.r

\* Faulty variant: the file-handle id is not passed on, the library loads at id 0.
em_load_data_at_zero(L, em_file_id, filename) ==
    {Returned(o, em_load_data_result(o)) : o \in EMLoadData(L, 0, filename)}

em_load_data(L, em_file_id, filename) ==
    {Returned(o, em_load_data_result(o)) : o \in EMLoadData(L, em_file_id, filename)}

tm_load_data_result(o) == ToEMTMResult(o.r)

tm_load_data(L, tm_file_id, filename) ==
    {Returned(o, tm_load_data_result(o)) : o \in TMLoadData(L, tm_file_id, filename)}

em_remove_all_result(o) == None

\* Faulty variant: only the data set at file-handle id 0 is cleared.
em_remove_all_at_zero(L) ==
    {Returned(o, em_remove_all_result(o)) : o \in EMCreate(L, 0)}

em_remove_all(L) ==
    {Returned(o, em_remove_all_result(o)) : o \in EMRemoveAll(L)}

em_create_result(o) == None

\* Faulty variant: the file-handle id is not passed on, the library creates at id 0.
em_create_at_zero(L, em_file_id) ==
    {Returned(o, em_create_result(o)) : o \in EMCreate(L, 0)}

em_create(L, em_file_id) ==
    {Returned(o, em_create_result(o)) : o \in EMCreate(L, em_file_id)}

\* Faulty variant: the result code is reported the wrong way round.
em_add_point_inverted(o) == IF o.r = ok THEN failed ELSE ok

em_add_point_result(o) == o.r

\* Faulty variant: the file-handle id is not passed on, the library adds at id 0.
em_add_point_at_zero(L, em_file_id, data) ==
    {Returned(o, em_add_point_result(o)) : o \in EMAddPoint(L, 0, data)}

em_add_point(L, em_file_id, data) ==
    {Returned(o, em_add_point_result(o)) : o \in EMAddPoint(L, em_file_id, data)}

\* Faulty variant: the result code is dropped and ok is reported.
em_add_3d_point_unchecked(o) == ok

em_add_3d_point_result(o) == o.r

em_add_3d_point(L, em_file_id, data) ==
    {Returned(o, em_add_3d_point_result(o)) : o \in EMAdd3DPoint(L, em_file_id, data)}

\* Faulty variant: the result code is dropped and ok is reported.
em_add_length_unchecked(o) == ok

em_add_length_result(o) == o.r

em_add_length(L, em_file_id, data) ==
    {Returned(o, em_add_length_result(o)) : o \in EMAddLength(L, em_file_id, data)}

\* Faulty variant: a failure is reported as -1, as the count functions do.
em_write_data_minus_one(o) == IF o.r = ok THEN ok ELSE -1

em_write_data_result(o) == o.r

\* Faulty variant: the load function is called in place of the write function.
em_write_data_loads(L, em_file_id, filename) ==
    {Returned(o, em_write_data_result(o)) : o \in EMLoadData(L, em_file_id, filename)}

\* Faulty variant: the file-handle id is not passed on, the library writes id 0.
em_write_data_at_zero(L, em_file_id, filename) ==
    {Returned(o, em_write_data_result(o)) : o \in EMWriteData(L, 0, filename)}

em_write_data(L, em_file_id, filename) ==
    {Returned(o, em_write_data_result(o)) : o \in EMWriteData(L, em_file_id, filename)}

\* Faulty variant: the pair is returned as (data, header).
em_info_get_swapped(o) == <<o.p_str_data, o.p_str_header>>

\* The two buffers decoded, (header, data); r is not returned.
em_info_get_result(o) == <<o.p_str_header, o.p_str_data>>

em_info_get(L, n_id, n_index, n_buff_sz) ==
    {Returned(o, em_info_get_result(o)) :
        o \in EMInfoGet(L, n_id, n_index, create_string_buffer(n_buff_sz),
                        create_string_buffer(n_buff_sz), n_buff_sz)}

em_info_set_result(o) == o.r

\* Faulty variant: the file-handle id is not passed on, the field is set at id 0.
em_info_set_at_zero(L, n_id, n_index, p_str_header, p_str_data, n_buff_sz) ==
    {Returned(o, em_info_set_result(o)) :
        o \in EMInfoSet(L, 0, n_index, CString(p_str_header), CString(p_str_data),
                        n_buff_sz)}

\* Faulty variant: header and data are passed on in each other's place.
em_info_set_swapped(L, n_id, n_index, p_str_header, p_str_data, n_buff_sz) ==
    {Returned(o, em_info_set_result(o)) :
        o \in EMInfoSet(L, n_id, n_index, CString(p_str_data), CString(p_str_header),
                        n_buff_sz)}

em_info_set(L, n_id, n_index, p_str_header, p_str_data, n_buff_sz) ==
    {Returned(o, em_info_set_result(o)) :
        o \in EMInfoSet(L, n_id, n_index, CString(p_str_header), CString(p_str_data),
                        n_buff_sz)}

em_info_count_result(o) == o.r

\* EMInfoCount is called without an argument: the binding takes no
\* file-handle id, and the library reads as its id whatever the first
\* argument register holds.
em_info_count(L) ==
    {Returned(o, em_info_count_result(o)) :
        o \in UNION {EMInfoCount(L, nID) : nID \in Handles}}

\* The buffer decoded; the result code is not returned.
em_units_result(o) == o.p_str_units

\* EMUnits is called with the id and the buffer only: the capacity n_buff_sz
\* is not passed on, and the library reads as nBuffSz whatever the third
\* argument register holds.
em_units(L, em_file_id, n_buff_sz) ==
    {[lib |-> o.lib, ret |-> em_units_result(o), native |-> o.r, overflow |-> o.overflow] :
        o \in UNION {EMUnits(L, em_file_id, create_string_buffer(n_buff_sz),
                             n_buff_sz, nBuffSz) : nBuffSz \in UnpassedSizes}}

\* Faulty variant: the tuple is built as (bbox, total).
em_point_count_swapped(o) == <<o.pn_bbox, o.r>>

\* PointCount(total, bbox): pn_bbox is passed by reference.
em_point_count_result(o) == <<o.r, o.pn_bbox>>

\* Faulty variant: the count function of the 3D points is called instead.
em_point_count_of_3d(L, em_file_id) ==
    {Returned(o, <<o.r, 0>>) : o \in EM3DPointCount(L, em_file_id)}

em_point_count(L, em_file_id) ==
    {Returned(o, em_point_count_result(o)) : o \in EMPointCount(L, em_file_id)}

\* Faulty variant: the count is reported as a flag, as a truth value would be.
em_3d_point_count_as_flag(o) == IF o.r > 0 THEN 1 ELSE 0

em_3d_point_count_result(o) == o.r

em_3d_point_count(L, em_file_id) ==
    {Returned(o, em_3d_point_count_result(o)) : o \in EM3DPointCount(L, em_file_id)}

\* LengthCount(total, compound): pn_compound is passed by value, so what the
\* library writes through pnCompound never reaches the binding's c_int(0).
em_get_length_count_result(o) == LET pn_compound == 0 IN <<o.r, pn_compound>>

em_get_length_count(L, em_file_id) ==
    {Returned(o, em_get_length_count_result(o)) : o \in EMLengthCount(L, em_file_id)}

\* The indexed gets return the structure the library filled; r is not returned.
em_get_point_result(o) == o.p

\* Faulty variant: the index is passed on one-based.
em_get_point_one_based(L, em_file_id, n_index) ==
    {Returned(o, em_get_point_result(o)) :
        o \in EMGetPoint(L, em_file_id, n_index + 1, EmPointData)}

em_get_point(L, em_file_id, n_index) ==
    {Returned(o, em_get_point_result(o)) :
        o \in EMGetPoint(L, em_file_id, n_index, EmPointData)}

em_get_3d_point_result(o) == o.p

em_get_3d_point(L, em_file_id, n_index) ==
    {Returned(o, em_get_3d_point_result(o)) :
        o \in EMGet3DPoint(L, em_file_id, n_index, Em3DPpointData)}

\* Faulty variant: a structure other than the one the library filled is returned.
em_get_length_fresh(o) == EmLengthData

em_get_length_result(o) == o.p

em_get_length(L, em_file_id, n_index) ==
    {Returned(o, em_get_length_result(o)) :
        o \in EMGetLength(L, em_file_id, n_index, EmLengthData)}

em_unique_fgs_result(o) == o.r

em_unique_fgs(L, em_file_id) ==
    {Returned(o, em_unique_fgs_result(o)) : o \in EMUniqueFGS(L, em_file_id)}

\* Faulty variant: the buffers are returned as (species, genus, family).
em_get_unique_fgs_reversed(o) == <<o.p_str_species, o.p_str_genus, o.p_str_family>>

\* The three buffers decoded, (family, genus, species); the result code is
\* not returned.
em_get_unique_fgs_result(o) == <<o.p_str_family, o.p_str_genus, o.p_str_species>>

\* Faulty variant: the index is passed on counted from one.
em_get_unique_fgs_one_based(L, em_file_id, n_index) ==
    {Returned(o, em_get_unique_fgs_result(o)) :
        o \in EMGetUniqueFGS(L, em_file_id, n_index + 1,
                             create_string_buffer(EMTM_MAX_CHARS),
                             create_string_buffer(EMTM_MAX_CHARS),
                             create_string_buffer(EMTM_MAX_CHARS), EMTM_MAX_CHARS)}

em_get_unique_fgs(L, em_file_id, n_index) ==
    {Returned(o, em_get_unique_fgs_result(o)) :
        o \in EMGetUniqueFGS(L, em_file_id, n_index,
                             create_string_buffer(EMTM_MAX_CHARS),
                             create_string_buffer(EMTM_MAX_CHARS),
                             create_string_buffer(EMTM_MAX_CHARS), EMTM_MAX_CHARS)}

\* FGS(point, box, xyz_point, length, cpd_length): the five counters passed
\* by reference; the result code is not returned.
em_measurement_count_fgs_result(o) ==
    <<o.pn_point, o.pn_box, o.pn_3d_point, o.pn_length, o.pn_cpd_length>>

\* Faulty variant: family and genus are passed on in each other's place.
em_measurement_count_fgs_swapped(L, em_file_id, family, genus, species) ==
    {Returned(o, em_measurement_count_fgs_result(o)) :
        o \in EMMeasurementCountFGS(L, em_file_id, CString(genus), CString(family),
                                    CString(species))}

em_measurement_count_fgs(L, em_file_id, family, genus, species) ==
    {Returned(o, em_measurement_count_fgs_result(o)) :
        o \in EMMeasurementCountFGS(L, em_file_id, CString(family), CString(genus),
                                    CString(species))}

(***************************************************************************)
(* A caller's step: one binding call on the library.  call keeps what the  *)
(* caller saw of its last call: the operation, the handle id, the other    *)
(* argument passed (arg: the record, index, file name or keys), the value  *)
(* returned and the native result.  A call that would take the library     *)
(* past MaxRecs records is not made.                                       *)
(***************************************************************************)
Saw(op, id, arg, b) ==
    [op |-> op, id |-> id, arg |-> arg, ret |-> b.ret, native |-> b.native]

LicencePresent ==
    \E b \in emtm_licence_present(lib) :
        /\ Held(b.lib) <= MaxRecs
        /\ lib' = b.lib
        /\ call' = Saw("emtm_licence_present", None, None, b)
        /\ UNCHANGED callers

SetLicenceKeys(key1, key2) ==
    \E b \in emtm_set_licence_keys(lib, key1, key2) :
        /\ Held(b.lib) <= MaxRecs
        /\ lib' = b.lib
        /\ call' = Saw("emtm_set_licence_keys", None, <<key1, key2>>, b)
        /\ UNCHANGED callers

EmLoadData(h, f) ==
    \E b \in em_load_data(lib, h, f) :
        /\ Held(b.lib) <= MaxRecs
        /\ lib' = b.lib
        /\ call' = Saw("em_load_data", h, f, b)
        /\ UNCHANGED callers

TmLoadData(h, f) ==
    \E b \in tm_load_data(lib, h, f) :
        /\ Held(b.lib) <= MaxRecs
        /\ lib' = b.lib
        /\ call' = Saw("tm_load_data", h, f, b)
        /\ UNCHANGED callers

EmRemoveAll ==
    \E b \in em_remove_all(lib) :
        /\ Held(b.lib) <= MaxRecs
        /\ lib' = b.lib
        /\ call' = Saw("em_remove_all", None, None, b)
        /\ UNCHANGED callers

EmCreate(h) ==
    \E b \in em_create(lib, h) :
        /\ Held(b.lib) <= MaxRecs
        /\ lib' = b.lib
        /\ call' = Saw("em_create", h, None, b)
        /\ UNCHANGED callers

EmAddPoint(h, d) ==
    \E b \in em_add_point(lib, h, d) :
        /\ Held(b.lib) <= MaxRecs
        /\ lib' = b.lib
        /\ call' = Saw("em_add_point", h, d, b)
        /\ UNCHANGED callers

EmAdd3DPoint(h, d) ==
    \E b \in em_add_3d_point(lib, h, d) :
        /\ Held(b.lib) <= MaxRecs
        /\ lib' = b.lib
        /\ call' = Saw("em_add_3d_point", h, d, b)
        /\ UNCHANGED callers

EmAddLength(h, d) ==
    \E b \in em_add_length(lib, h, d) :
        /\ Held(b.lib) <= MaxRecs
        /\ lib' = b.lib
        /\ call' = Saw("em_add_length", h, d, b)
        /\ UNCHANGED callers

EmWriteData(h, f) ==
    \E b \in em_write_data(lib, h, f) :
        /\ Held(b.lib) <= MaxRecs
        /\ lib' = b.lib
        /\ call' = Saw("em_write_data", h, f, b)
        /\ UNCHANGED callers

EmInfoSet(h, i, header, data) ==
    \E b \in em_info_set(lib, h, i, header, data, EMTM_MAX_CHARS) :
        /\ Held(b.lib) <= MaxRecs
        /\ lib' = b.lib
        /\ call' = Saw("em_info_set", h, <<i, header, data>>, b)
        /\ UNCHANGED callers

EmInfoGet(h, i, n_buff_sz) ==
    \E b \in em_info_get(lib, h, i, n_buff_sz) :
        /\ Held(b.lib) <= MaxRecs
        /\ lib' = b.lib
        /\ call' = Saw("em_info_get", h, <<i, n_buff_sz>>, b)
        /\ UNCHANGED callers

EmInfoCount ==
    \E b \in em_info_count(lib) :
        /\ Held(b.lib) <= MaxRecs
        /\ lib' = b.lib
        /\ call' = Saw("em_info_count", None, None, b)
        /\ UNCHANGED callers

EmUnits(h, n_buff_sz) ==
    \E b \in em_units(lib, h, n_buff_sz) :
        /\ Held(b.lib) <= MaxRecs
        /\ lib' = b.lib
        /\ call' = Saw("em_units", h, n_buff_sz, b)
        /\ UNCHANGED callers

EmPointCount(h) ==
    \E b \in em_point_count(lib, h) :
        /\ Held(b.lib) <= MaxRecs
        /\ lib' = b.lib
        /\ call' = Saw("em_point_count", h, None, b)
        /\ UNCHANGED callers

Em3DPointCount(h) ==
    \E b \in em_3d_point_count(lib, h) :
        /\ Held(b.lib) <= MaxRecs
        /\ lib' = b.lib
        /\ call' = Saw("em_3d_point_count", h, None, b)
        /\ UNCHANGED callers

EmGetLengthCount(h) ==
    \E b \in em_get_length_count(lib, h) :
        /\ Held(b.lib) <= MaxRecs
        /\ lib' = b.lib
        /\ call' = Saw("em_get_length_count", h, None, b)
        /\ UNCHANGED callers

EmGetPoint(h, i) ==
    \E b \in em_get_point(lib, h, i) :
        /\ Held(b.lib) <= MaxRecs
        /\ lib' = b.lib
        /\ call' = Saw("em_get_point", h, i, b)
        /\ UNCHANGED callers

EmGet3DPoint(h, i) ==
    \E b \in em_get_3d_point(lib, h, i) :
        /\ Held(b.lib) <= MaxRecs
        /\ lib' = b.lib
        /\ call' = Saw("em_get_3d_point", h, i, b)
        /\ UNCHANGED callers

EmGetLength(h, i) ==
    \E b \in em_get_length(lib, h, i) :
        /\ Held(b.lib) <= MaxRecs
        /\ lib' = b.lib
        /\ call' = Saw("em_get_length", h, i, b)
        /\ UNCHANGED callers

EmUniqueFgs(h) ==
    \E b \in em_unique_fgs(lib, h) :
        /\ Held(b.lib) <= MaxRecs
        /\ lib' = b.lib
        /\ call' = Saw("em_unique_fgs", h, None, b)
        /\ UNCHANGED callers

EmGetUniqueFgs(h, i) ==
    \E b \in em_get_unique_fgs(lib, h, i) :
        /\ Held(b.lib) <= MaxRecs
        /\ lib' = b.lib
        /\ call' = Saw("em_get_unique_fgs", h, i, b)
        /\ UNCHANGED callers

EmMeasurementCountFgs(h, family, genus, species) ==
    \E b \in em_measurement_count_fgs(lib, h, family, genus, species) :
        /\ Held(b.lib) <= MaxRecs
        /\ lib' = b.lib
        /\ call' = Saw("em_measurement_count_fgs", h, <<family, genus, species>>, b)
        /\ UNCHANGED callers

(***************************************************************************)
(* Spec: the enumeration protocol.  From the library as loaded, a caller    *)
(* working at file-handle id 0 creates, clears, extends, counts and reads  *)
(* the data set, and loads the read-only file once the licence keys are    *)
(* set.                                                                    *)
(***************************************************************************)
SpecHandles == {0}

\* The callers that share the library, the locks of the file-handle ids
\* (none held) and the callers' count-then-read sequences (none begun).
\* loose records that em_remove_all was called by a caller that did not hold
\* the lock of every file-handle id.
Callers == {"c1", "c2"}
NoCallers ==
    [lock |-> [h \in Handles |-> None],
     seq |-> [t \in Callers |-> {}],
     loose |-> FALSE]

Init ==
    /\ lib = InitLib
    /\ call = [op |-> "import", id |-> None, arg |-> None, ret |-> None, native |-> None]
    /\ callers = NoCallers

Next ==
    \/ SetLicenceKeys("k1", "k2")
    \/ \E h \in SpecHandles, f \in {"fix", "none"} : EmLoadData(h, f)
    \/ EmRemoveAll
    \/ \E h \in SpecHandles : EmCreate(h)
    \/ \E h \in SpecHandles, d \in PointInputs : EmAddPoint(h, d)
    \/ \E h \in SpecHandles, d \in Point3DInputs : EmAdd3DPoint(h, d)
    \/ \E h \in SpecHandles, d \in LengthInputs : EmAddLength(h, d)
    \/ \E h \in SpecHandles : EmPointCount(h)
    \/ \E h \in SpecHandles : Em3DPointCount(h)
    \/ \E h \in SpecHandles : EmGetLengthCount(h)
    \/ \E h \in SpecHandles, i \in Indices : EmGetPoint(h, i)
    \/ \E h \in SpecHandles, i \in Indices : EmGet3DPoint(h, i)
    \/ \E h \in SpecHandles, i \in Indices : EmGetLength(h, i)

Spec == Init /\ [][Next]_vars

(***************************************************************************)
(* SpecFile: files.  Callers at both file-handle ids build data sets from  *)
(* a small pool of records and an information field, write them, load     *)
(* files, once the licence keys are set, and ask for the number of         *)
(* information fields.                                                     *)
(***************************************************************************)
FilePoints == {PointA1, PointB}
File3DPoints == {Point3DA1}
FileLengths == {LengthA1}

NextFile ==
    \/ SetLicenceKeys("k1", "k2")
    \/ \E h \in Handles, f \in Paths : EmLoadData(h, f)
    \/ \E h \in Handles, f \in Paths : EmWriteData(h, f)
    \/ EmRemoveAll
    \/ \E h \in Handles : EmCreate(h)
    \/ \E h \in Handles, d \in FilePoints : EmAddPoint(h, d)
    \/ \E h \in Handles, d \in File3DPoints : EmAdd3DPoint(h, d)
    \/ \E h \in Handles, d \in FileLengths : EmAddLength(h, d)
    \/ \E h \in Handles : EmInfoSet(h, 4, Hdr, Val)
    \/ EmInfoCount

SpecFile == Init /\ [][NextFile]_vars

(***************************************************************************)
(* SpecLicence: the licence.  Callers set licence keys, valid or not, ask  *)
(* whether the licence is present, and load and write EventMeasure and     *)
(* TransectMeasure files, create data sets, add a point and clear the data *)
(* sets at both file-handle ids before and after.                          *)
(***************************************************************************)
TMPaths == {"t", "none"}

NextLicence ==
    \/ \E key1 \in Keys, key2 \in Keys : SetLicenceKeys(key1, key2)
    \/ LicencePresent
    \/ \E h \in Handles, f \in Paths : EmLoadData(h, f)
    \/ \E h \in Handles, f \in TMPaths : TmLoadData(h, f)
    \/ \E h \in Handles, f \in Paths : EmWriteData(h, f)
    \/ \E h \in Handles : EmCreate(h)
    \/ \E h \in Handles : EmAddPoint(h, PointA1)
    \/ EmRemoveAll

SpecLicence == Init /\ [][NextLicence]_vars

(***************************************************************************)
(* SpecInfo: texts.  Callers at both file-handle ids set the user-defined   *)
(* information field 4 to short and long texts, read it and the units back *)
(* through buffers of one character and of the default capacity, and carry *)
(* them through the written file.                                          *)
(***************************************************************************)
NextInfo ==
    \/ SetLicenceKeys("k1", "k2")
    \/ \E h \in Handles, f \in {"fix", "tmp"} : EmLoadData(h, f)
    \/ \E h \in Handles : EmWriteData(h, "tmp")
    \/ \E h \in Handles, data \in InfoTexts : EmInfoSet(h, 4, Hdr, data)
    \/ \E h \in Handles, n \in BuffSizes : EmInfoGet(h, 4, n)
    \/ \E h \in Handles, n \in BuffSizes : EmUnits(h, n)

SpecInfo == Init /\ [][NextInfo]_vars

(***************************************************************************)
(* SpecHeaders: the headers of the information fields.  A caller at         *)
(* file-handle id 0 loads the file or creates a data set, sets every        *)
(* information field with a header of its own, with the header of another   *)
(* field or with none, and reads the fields back.                           *)
(***************************************************************************)
NextHeaders ==
    \/ SetLicenceKeys("k1", "k2")
    \/ \E h \in SpecHandles : EmLoadData(h, "fix")
    \/ \E h \in SpecHandles : EmCreate(h)
    \/ \E h \in SpecHandles, i \in InfoIndices, header \in {Hdr, FixedHeader(3), <<>>},
          data \in {Val, <<>>} :
        EmInfoSet(h, i, header, data)
    \/ \E h \in SpecHandles, i \in InfoIndices : EmInfoGet(h, i, EMTM_MAX_CHARS)

SpecHeaders == Init /\ [][NextHeaders]_vars

(***************************************************************************)
(* SpecFGS: family, genus and species.  A caller at file-handle id 0 loads *)
(* the file or creates a data set, adds records whose taxonomy differs in  *)
(* case, in one of the three texts or not at all, is empty, or is the text *)
(* "*", lists the unique triples and counts the measurements of a triple.  *)
(***************************************************************************)
PointFGS == [PointA1 EXCEPT !.str_family = Fa, !.str_genus = Ge, !.str_species = Sp]
BoxLower == [PointA2 EXCEPT !.str_family = ToLower(Fa)]
PointOther == [PointFGS EXCEPT !.str_family = <<"O", "t">>]
PointStar == [PointFGS EXCEPT !.str_family = Star]
FGSPoints == {PointA1, PointFGS, BoxLower, PointOther, PointStar}

NextFGS ==
    \/ SetLicenceKeys("k1", "k2")
    \/ \E h \in SpecHandles : EmLoadData(h, "fix")
    \/ \E h \in SpecHandles : EmCreate(h)
    \/ \E h \in SpecHandles, d \in FGSPoints : EmAddPoint(h, d)
    \/ \E h \in SpecHandles, d \in {Point3DA2} : EmAdd3DPoint(h, d)
    \/ \E h \in SpecHandles, d \in {LengthA2} : EmAddLength(h, d)
    \/ \E h \in SpecHandles : EmUniqueFgs(h)
    \/ \E h \in SpecHandles, i \in Indices : EmGetUniqueFgs(h, i)
    \/ \E h \in SpecHandles, family \in {Star, ToUpper(Fa)}, genus \in {Star, Ge},
          species \in {Star, Sp} :
        EmMeasurementCountFgs(h, family, genus, species)

SpecFGS == Init /\ [][NextFGS]_vars

(***************************************************************************)
(* SpecCount: counts of all kinds.  A caller at file-handle id 0 loads the  *)
(* file, which holds a compound length, or creates a data set, adds valid   *)
(* and invalid records of each kind, counts each kind, reads points and     *)
(* lengths by index and counts the measurements by family, genus and        *)
(* species.                                                                 *)
(***************************************************************************)
CountPoints == {PointA1, PointA2, PointB, [PointA2 EXCEPT !.n_frame = -1]}
CountLengths == {LengthA1, [LengthA2 EXCEPT !.b_compound_length = TRUE]}

NextCount ==
    \/ SetLicenceKeys("k1", "k2")
    \/ \E h \in SpecHandles : EmLoadData(h, "fix")
    \/ \E h \in SpecHandles : EmCreate(h)
    \/ \E h \in SpecHandles, d \in CountPoints : EmAddPoint(h, d)
    \/ \E h \in SpecHandles : EmAdd3DPoint(h, Point3DA1)
    \/ \E h \in SpecHandles, d \in CountLengths : EmAddLength(h, d)
    \/ \E h \in SpecHandles : EmPointCount(h)
    \/ \E h \in SpecHandles : Em3DPointCount(h)
    \/ \E h \in SpecHandles : EmGetLengthCount(h)
    \/ \E h \in SpecHandles, i \in Indices : EmGetPoint(h, i)
    \/ \E h \in SpecHandles, i \in Indices : EmGetLength(h, i)
    \/ \E h \in SpecHandles, family \in {Star, Fa} :
        EmMeasurementCountFgs(h, family, Star, Star)

SpecCount == Init /\ [][NextCount]_vars

(***************************************************************************)
(* _dataframe_from_count_and_record_reader.  A structure is a function     *)
(* from its attribute names to their values; a record reader is a function *)
(* from indices to structures.  The outcome of a call holds what was       *)
(* returned or raised and the indices the reader was called with, in the   *)
(* order of the calls.                                                     *)
(***************************************************************************)
\* Largest count passed to the helper.
MaxCount == 3

\* dir(p): the attribute names of a structure, sorted.
Dir == <<"__class__", "_objects", "n_frame", "str_filename">>

StartsWithUnderscore(attr) == attr \in {"__class__", "_objects"}

Structure(n_frame, str_filename) ==
    ("__class__" :> "EmPointData") @@ ("_objects" :> None)
        @@ ("n_frame" :> n_frame) @@ ("str_filename" :> str_filename)

Structures == {Structure(7, "f"), Structure(8, "g")}

\* The readers: any structure at any index, also outside the count.
Readers == [-1 .. MaxCount -> Structures]

\* The dtype convert_dtypes and infer_objects give a column: integers become
\* Int64, byte strings stay objects.
Dtype(attr) == IF attr = "n_frame" THEN "Int64" ELSE "object"

\* index = [attr for attr in dir(p) if not attr.startswith('_')]
PublicAttributes(p) ==
    SelectSeq(Dir, LAMBDA attr : attr \in DOMAIN p /\ ~StartsWithUnderscore(attr))

\* for jj in range(count): p = record_read_function(jj); data[jj][ii] = ...
\* The rows filled and the reader calls made from row jj on.
RECURSIVE FillRows(_, _, _, _)
FillRows(count, record_read_function, index, jj) ==
    IF jj >= count THEN [data |-> <<>>, reads |-> <<>>]
    ELSE LET p == record_read_function[jj]
             row == [ii \in 1 .. Len(index) |-> p[index[ii]]]
             rest == FillRows(count, record_read_function, index, jj + 1)
         IN [data |-> <<row>> \o rest.data, reads |-> <<jj>> \o rest.reads]

DataFrame(data, columns) ==
    [columns |-> columns,
     dtypes |-> [ii \in 1 .. Len(columns) |-> "object"],
     rows |-> data]

convert_dtypes(xpdf) ==
    [xpdf EXCEPT !.dtypes = [ii \in 1 .. Len(xpdf.columns) |-> Dtype(xpdf.columns[ii])]]

\* Faulty variant: the rows are read from index 1 on.
dataframe_from_count_one_based(count, record_read_function) ==
    IF count = 0
    THEN [raised |-> None, returned |-> None, xpdf |-> None, reads |-> <<>>]
    ELSE IF count < 0
    THEN [raised |-> "ValueError", returned |-> None, xpdf |-> None, reads |-> <<>>]
    ELSE LET p == record_read_function[0]
             index == PublicAttributes(p)
             filled == FillRows(count + 1, record_read_function, index, 1)
         IN [raised |-> None, returned |-> "DataFrame",
             xpdf |-> convert_dtypes(DataFrame(filled.data, index)),
             reads |-> <<0>> \o filled.reads]

dataframe_from_count_and_record_reader(count, record_read_function) ==
    IF count = 0
    THEN [raised |-> None, returned |-> None, xpdf |-> None, reads |-> <<>>]
    ELSE IF count < 0
    THEN [raised |-> "ValueError", returned |-> None, xpdf |-> None, reads |-> <<>>]
    ELSE LET p == record_read_function[0]
             index == PublicAttributes(p)
             filled == FillRows(count, record_read_function, index, 0)
         IN [raised |-> None, returned |-> "DataFrame",
             xpdf |-> convert_dtypes(DataFrame(filled.data, index)),
             reads |-> <<0>> \o filled.reads]

(***************************************************************************)
(* SpecFrame: the helper is called once with a count from -1 to MaxCount    *)
(* and a reader.                                                           *)
(***************************************************************************)
InitFrame ==
    /\ lib = InitLib
    /\ \E count \in -1 .. MaxCount, record_read_function \in Readers :
        call = [op |-> "import", id |-> None,
                arg |-> [count |-> count, record_read_function |-> record_read_function],
                ret |-> None, native |-> None]
    /\ callers = NoCallers

DataFrameFromCountAndRecordReader ==
    /\ call.op = "import"
    /\ call' = [call EXCEPT
                    !.op = "_dataframe_from_count_and_record_reader",
                    !.ret = dataframe_from_count_and_record_reader(
                                call.arg.count, call.arg.record_read_function)]
    /\ UNCHANGED <<lib, callers>>

NextFrame == DataFrameFromCountAndRecordReader

SpecFrame == InitFrame /\ [][NextFrame]_vars

(***************************************************************************)
(* Callers that serialize per file-handle id.  The binding takes no lock   *)
(* of its own: the callers share one lock for each file-handle id, take    *)
(* the lock of the id they pass before the call and hold it from the count *)
(* to the last indexed get that relies on it.  callers.seq[t] holds the    *)
(* pairs <<h, n>> of the sequences caller t has in progress: it counted n  *)
(* points at h and has since neither released the lock of h nor changed    *)
(* the data set at h itself.  em_remove_all takes no file-handle id, so    *)
(* the discipline asks no lock of its caller; callers.loose records that   *)
(* it was called by a caller that did not hold every lock.  Each call is   *)
(* one step: the calls themselves are taken not to overlap inside the      *)
(* library.                                                                *)
(***************************************************************************)
LockPoints == {PointA1, PointA2}

Without(seqs, h) == {q \in seqs : q[1] # h}

Acquire(t, h) ==
    /\ callers.lock[h] = None
    /\ callers' = [callers EXCEPT !.lock[h] = t]
    /\ UNCHANGED <<lib, call>>

Release(t, h) ==
    /\ callers.lock[h] = t
    /\ callers' = [callers EXCEPT !.lock[h] = None,
                                  !.seq[t] = Without(@, h)]
    /\ UNCHANGED <<lib, call>>

LockedPointCount(t, h) ==
    /\ callers.lock[h] = t
    /\ \E b \in em_point_count(lib, h) :
        /\ Held(b.lib) <= MaxRecs
        /\ lib' = b.lib
        /\ call' = Saw("em_point_count", h, None, b)
        /\ callers' = [callers EXCEPT
                          !.seq[t] = Without(@, h) \cup {<<h, b.ret[1]>>}]

LockedGetPoint(t, h, i) ==
    /\ callers.lock[h] = t
    /\ \E q \in callers.seq[t] : q[1] = h /\ i < q[2]
    /\ \E b \in em_get_point(lib, h, i) :
        /\ Held(b.lib) <= MaxRecs
        /\ lib' = b.lib
        /\ call' = Saw("em_get_point", h, i, b)
        /\ UNCHANGED callers

LockedAddPoint(t, h, d) ==
    /\ callers.lock[h] = t
    /\ \E b \in em_add_point(lib, h, d) :
        /\ Held(b.lib) <= MaxRecs
        /\ lib' = b.lib
        /\ call' = Saw("em_add_point", h, d, b)
        /\ callers' = [callers EXCEPT !.seq[t] = Without(@, h)]

LockedCreate(t, h) ==
    /\ callers.lock[h] = t
    /\ \E b \in em_create(lib, h) :
        /\ Held(b.lib) <= MaxRecs
        /\ lib' = b.lib
        /\ call' = Saw("em_create", h, None, b)
        /\ callers' = [callers EXCEPT !.seq[t] = Without(@, h)]

RemoveAllBy(t) ==
    \E b \in em_remove_all(lib) :
        /\ Held(b.lib) <= MaxRecs
        /\ lib' = b.lib
        /\ call' = Saw("em_remove_all", None, None, b)
        /\ callers' = [callers EXCEPT
                          !.seq[t] = {},
                          !.loose = @ \/ \E h \in Handles : callers.lock[h] # t]

NextLock ==
    \/ \E t \in Callers, h \in Handles : Acquire(t, h)
    \/ \E t \in Callers, h \in Handles : Release(t, h)
    \/ \E t \in Callers, h \in Handles : LockedPointCount(t, h)
    \/ \E t \in Callers, h \in Handles, i \in Indices : LockedGetPoint(t, h, i)
    \/ \E t \in Callers, h \in Handles, d \in LockPoints : LockedAddPoint(t, h, d)
    \/ \E t \in Callers, h \in Handles : LockedCreate(t, h)
    \/ \E t \in Callers : RemoveAllBy(t)

SpecLock == Init /\ [][NextLock]_vars

(***************************************************************************)
(* Properties.  What a caller reads through the binding: the three counts  *)
(* at a file-handle id, whether an indexed get is well-defined (every      *)
(* outcome the native contract allows reports ok), and the values the      *)
(* outcomes return.                                                        *)
(***************************************************************************)
CountsAt(L, h) ==
    {<<p.ret, t.ret, l.ret>> :
        p \in em_point_count(L, h),
        t \in em_3d_point_count(L, h),
        l \in em_get_length_count(L, h)}

WellDefined(outcomes) == \A g \in outcomes : g.native = ok

Rets(outcomes) == {g.ret : g \in outcomes}

AddOps == {"em_add_point", "em_add_3d_point", "em_add_length"}

\* C1: from every reachable state of the library (data sets empty, loaded,
\* mutated) and for every file-handle id h, em_create(h) followed at once by
\* em_point_count(h), em_3d_point_count(h) and em_get_length_count(h)
\* returns (0, 0), 0 and (0, 0): zero for every total and sub-count.
C1_CreateThenCountsZero ==
    \A h \in Handles :
        \A c \in em_create(lib, h) :
            CountsAt(c.lib, h) = {<<<<0, 0>>, 0, <<0, 0>>>>}

\* em_create has been called while a file-handle id holds a loaded data set
\* (the compound length of the file) that an add has extended.
C1_Witness ==
    /\ call.op = "em_create"
    /\ \E h \in Handles :
        /\ Len(lib.data[h].lengths) >= 1
        /\ IsCompound(lib.data[h].lengths[1])
        /\ Len(lib.data[h].points) >= 1

C3_RoundTripCounts ==
    (call.op = "em_write_data" /\ call.ret = ok) =>
        \A b \in Handles \ {call.id} :
            \A l \in em_load_data(lib, b, call.arg) :
                /\ l.ret = ok
                /\ CountsAt(l.lib, b) = CountsAt(l.lib, call.id)

\* A data set that holds a record was written.
C3_Witness ==
    /\ call.op = "em_write_data"
    /\ call.ret = ok
    /\ Size(lib.data[call.id]) >= 1
    /\ \E b \in Handles \ {call.id} : Size(lib.data[b]) # Size(lib.data[call.id])

LicensedOps == {"em_load_data", "tm_load_data", "em_write_data"}

\* C4: as long as no emtm_set_licence_keys call has returned true, every
\* em_load_data, tm_load_data and em_write_data call returns
\* invalid_licence, for every file-handle id and path and however often it
\* is retried.  The library is licensed only from a step on in which
\* emtm_set_licence_keys returned true (1), and while it is not licensed a
\* call of the three operations returns invalid_licence.
C4_UnlicensedCallsFail ==
    /\ [](~lib.licensed =>
            (call.op \in LicensedOps => call.ret = invalid_licence))
    /\ [][lib'.licensed # lib.licensed =>
            /\ lib'.licensed
            /\ call'.op = "emtm_set_licence_keys"
            /\ call'.ret = 1]_vars

\* Before any valid key pair is set, a load of the EventMeasure file
\* returned invalid_licence.
C4_Witness ==
    /\ ~lib.licensed
    /\ call.op = "em_load_data"
    /\ call.arg = "fix"
    /\ call.ret = invalid_licence

\* C5: from every reachable state, a successful em_load_data(h, f) leaves at
\* h exactly the data set of file f: the counts, the records the indexed
\* gets return and the information fields are those of the file, whatever h
\* held before and without a clear.
C5_LoadReplaces ==
    \A h \in Handles, f \in Paths :
        \A l \in em_load_data(lib, h, f) :
            l.ret = ok =>
                LET d == Contents(lib.files[f]) IN
                /\ \A c \in em_point_count(l.lib, h) :
                    /\ c.ret = <<Len(d.points), CountOf(d.points, IsBox)>>
                    /\ \A i \in 0 .. Len(d.points) - 1 :
                        Rets(em_get_point(c.lib, h, i)) = {d.points[i + 1]}
                /\ \A c \in em_3d_point_count(l.lib, h) :
                    /\ c.ret = Len(d.points3d)
                    /\ \A i \in 0 .. Len(d.points3d) - 1 :
                        Rets(em_get_3d_point(c.lib, h, i)) = {d.points3d[i + 1]}
                /\ \A c \in em_get_length_count(l.lib, h) :
                    /\ c.ret[1] = Len(d.lengths)
                    /\ \A i \in 0 .. Len(d.lengths) - 1 :
                        Rets(em_get_length(c.lib, h, i)) = {d.lengths[i + 1]}
                /\ \A i \in InfoIndices :
                    Rets(em_info_get(l.lib, h, i, EMTM_MAX_CHARS))
                        = {<<d.info[i].header, d.info[i].data>>}

\* A load has succeeded while a file-handle id holds a point of op code "B"
\* and a user information field, neither of which the files hold.
C5_Witness ==
    /\ call.op = "em_load_data"
    /\ call.ret = ok
    /\ \E h \in Handles :
        /\ OpCodes(lib.data[h]) = {"B"}
        /\ lib.data[h].info[4].data = Val
        /\ \A f \in Paths : lib.files[f] # FileOf(lib.data[h])

BadPoint(d) ==
    \/ d.str_op_code = "" \/ d.str_filename = ""
    \/ d.n_frame < 0
    \/ d.d_imx < 0 \/ d.d_imy < 0

Bad3DPoint(d) ==
    \/ d.str_op_code = ""
    \/ d.str_filename_left = "" \/ d.str_filename_right = ""
    \/ d.n_frame_left < 0 \/ d.n_frame_right < 0
    \/ d.d_imx_left < 0 \/ d.d_imy_left < 0
    \/ d.d_imx_right < 0 \/ d.d_imy_right < 0

BadLength(d) ==
    \/ d.str_op_code = ""
    \/ d.str_filename_left = "" \/ d.str_filename_right = ""
    \/ d.n_frame_left < 0 \/ d.n_frame_right < 0
    \/ d.d_imx1_left < 0 \/ d.d_imy1_left < 0
    \/ d.d_imx1_right < 0 \/ d.d_imy1_right < 0
    \/ d.d_imx2_left < 0 \/ d.d_imy2_left < 0
    \/ d.d_imx2_right < 0 \/ d.d_imy2_right < 0
    \/ d.b_compound_length

\* C6: em_add_point, em_add_3d_point and em_add_length return failed for a
\* record with an empty op code, an empty filename (left or right), a
\* negative frame index or a negative image coordinate, and em_add_length
\* also for a record with the compound flag set.
C6_BadRecordFails ==
    /\ (call.op = "em_add_point" /\ BadPoint(call.arg)) => call.ret = failed
    /\ (call.op = "em_add_3d_point" /\ Bad3DPoint(call.arg)) => call.ret = failed
    /\ (call.op = "em_add_length" /\ BadLength(call.arg)) => call.ret = failed

\* A length with the compound flag set, of the op code of the data set and
\* with every other field valid, was refused.
C6_Witness ==
    /\ call.op = "em_add_length"
    /\ call.arg = [LengthA2 EXCEPT !.b_compound_length = TRUE]
    /\ OpCodes(lib.data[call.id]) = {"A"}
    /\ call.ret = failed

\* The records a caller reads at h: each count call, then the indexed get of
\* every index below the count returned.
PointsRead(L, h) ==
    UNION {UNION {Rets(em_get_point(c.lib, h, i)) : i \in 0 .. c.ret[1] - 1} :
            c \in em_point_count(L, h)}

Points3DRead(L, h) ==
    UNION {UNION {Rets(em_get_3d_point(c.lib, h, i)) : i \in 0 .. c.ret - 1} :
            c \in em_3d_point_count(L, h)}

LengthsRead(L, h) ==
    UNION {UNION {Rets(em_get_length(c.lib, h, i)) : i \in 0 .. c.ret[1] - 1} :
            c \in em_get_length_count(L, h)}

ReadOpCodes(L, h) ==
    {p.str_op_code : p \in PointsRead(L, h)}
        \cup {p.str_op_code : p \in Points3DRead(L, h)}
        \cup {p.str_op_code : p \in LengthsRead(L, h)}

\* C7: once the data set at h has an op code (from the file loaded or from
\* an earlier successful add of any kind), an add of a point, 3D point or
\* length of another op code returns failed; so the records of all three
\* kinds read at h carry one op code.
C7_OneOpCode ==
    /\ \A h \in Handles : Cardinality(ReadOpCodes(lib, h)) <= 1
    /\ (/\ call.op \in AddOps
        /\ ReadOpCodes(lib, call.id) # {}
        /\ call.arg.str_op_code \notin ReadOpCodes(lib, call.id)) => call.ret = failed

\* A valid 3D point of op code "B" was refused by a data set that holds no
\* 3D point: its op code "A" comes from records of the other kinds.
C7_Witness ==
    /\ call.op = "em_add_3d_point"
    /\ call.arg = Point3DB
    /\ call.ret = failed
    /\ ReadOpCodes(lib, call.id) = {"A"}
    /\ Len(lib.data[call.id].points3d) = 0

\* C8, in a state: after a successful add of kind K at h no indexed get of
\* kind K at h is well-defined, and once the count call of kind K is issued
\* again the get of every index below the count returned is.
C8_AfterAdd ==
    /\ (call.op = "em_add_point" /\ call.ret = ok) =>
        /\ \A i \in Indices : ~WellDefined(em_get_point(lib, call.id, i))
        /\ \A c \in em_point_count(lib, call.id) :
            \A i \in 0 .. c.ret[1] - 1 : WellDefined(em_get_point(c.lib, call.id, i))
    /\ (call.op = "em_add_3d_point" /\ call.ret = ok) =>
        /\ \A i \in Indices : ~WellDefined(em_get_3d_point(lib, call.id, i))
        /\ \A c \in em_3d_point_count(lib, call.id) :
            \A i \in 0 .. c.ret - 1 : WellDefined(em_get_3d_point(c.lib, call.id, i))
    /\ (call.op = "em_add_length" /\ call.ret = ok) =>
        /\ \A i \in Indices : ~WellDefined(em_get_length(lib, call.id, i))
        /\ \A c \in em_get_length_count(lib, call.id) :
            \A i \in 0 .. c.ret[1] - 1 : WellDefined(em_get_length(c.lib, call.id, i))

\* C8, in a step: an indexed get of kind K at h becomes well-defined only by
\* a count call of kind K at h (a step that leaves the library as it was
\* changes no get).
C8_OnlyByCount ==
    lib' # lib => \A h \in Handles, i \in Indices :
        /\ (~WellDefined(em_get_point(lib, h, i)) /\ WellDefined(em_get_point(lib', h, i)))
            => (call'.op = "em_point_count" /\ call'.id = h)
        /\ (~WellDefined(em_get_3d_point(lib, h, i)) /\ WellDefined(em_get_3d_point(lib', h, i)))
            => (call'.op = "em_3d_point_count" /\ call'.id = h)
        /\ (~WellDefined(em_get_length(lib, h, i)) /\ WellDefined(em_get_length(lib', h, i)))
            => (call'.op = "em_get_length_count" /\ call'.id = h)

C9_AtCount ==
    /\ call.op = "em_point_count" =>
        \A i \in 0 .. call.ret[1] - 1 :
            /\ WellDefined(em_get_point(lib, call.id, i))
            /\ Rets(em_get_point(lib, call.id, i)) = {lib.data[call.id].points[i + 1]}
    /\ call.op = "em_3d_point_count" =>
        \A i \in 0 .. call.ret - 1 :
            /\ WellDefined(em_get_3d_point(lib, call.id, i))
            /\ Rets(em_get_3d_point(lib, call.id, i)) = {lib.data[call.id].points3d[i + 1]}
    /\ call.op = "em_get_length_count" =>
        \A i \in 0 .. call.ret[1] - 1 :
            /\ WellDefined(em_get_length(lib, call.id, i))
            /\ Rets(em_get_length(lib, call.id, i)) = {lib.data[call.id].lengths[i + 1]}

\* The call c is a load, create or clear of h.
Clears(c, h) ==
    \/ c.op = "em_remove_all"
    \/ (c.op \in {"em_load_data", "em_create"} /\ c.id = h)

\* The call c is a successful add at h by the operation op.
Adds(c, h, op) == c.op = op /\ c.id = h /\ c.ret = ok

\* An indexed get that is well-defined before the step is well-defined
\* after it and returns the same record.
KeepsPoint(h, i) ==
    WellDefined(em_get_point(lib, h, i)) =>
        /\ WellDefined(em_get_point(lib', h, i))
        /\ Rets(em_get_point(lib', h, i)) = Rets(em_get_point(lib, h, i))

Keeps3DPoint(h, i) ==
    WellDefined(em_get_3d_point(lib, h, i)) =>
        /\ WellDefined(em_get_3d_point(lib', h, i))
        /\ Rets(em_get_3d_point(lib', h, i)) = Rets(em_get_3d_point(lib, h, i))

KeepsLength(h, i) ==
    WellDefined(em_get_length(lib, h, i)) =>
        /\ WellDefined(em_get_length(lib', h, i))
        /\ Rets(em_get_length(lib', h, i)) = Rets(em_get_length(lib, h, i))

Surfaced(Result(_), o) ==
    \A r \in EMTMResult \ {o.r} : Result([o EXCEPT !.r = r]) # Result(o)

\* C10: the result code of every native call reaches the caller of the
\* binding: for the operations whose native function returns a result code
\* (loads, write, adds, em_info_set, and the indexed gets and em_info_get),
\* the value returned differs when the code differs.
C10_CodesSurfaced ==
    \A h \in Handles :
        /\ \A f \in Paths :
            /\ \A o \in EMLoadData(lib, h, f) : Surfaced(em_load_data_result, o)
            /\ \A o \in EMWriteData(lib, h, f) : Surfaced(em_write_data_result, o)
        /\ \A o \in TMLoadData(lib, h, "t") : Surfaced(tm_load_data_result, o)
        /\ \A d \in PointInputs :
            \A o \in EMAddPoint(lib, h, d) : Surfaced(em_add_point_result, o)
        /\ \A d \in Point3DInputs :
            \A o \in EMAdd3DPoint(lib, h, d) : Surfaced(em_add_3d_point_result, o)
        /\ \A d \in LengthInputs :
            \A o \in EMAddLength(lib, h, d) : Surfaced(em_add_length_result, o)
        /\ \A i \in InfoIndices :
            /\ \A o \in EMInfoSet(lib, h, i, Hdr, Val, EMTM_MAX_CHARS) :
                Surfaced(em_info_set_result, o)
            /\ \A o \in EMInfoGet(lib, h, i, <<>>, <<>>, EMTM_MAX_CHARS) :
                Surfaced(em_info_get_result, o)
        /\ \A i \in Indices :
            /\ \A o \in EMGetPoint(lib, h, i, EmPointData) :
                Surfaced(em_get_point_result, o)
            /\ \A o \in EMGet3DPoint(lib, h, i, Em3DPpointData) :
                Surfaced(em_get_3d_point_result, o)
            /\ \A o \in EMGetLength(lib, h, i, EmLengthData) :
                Surfaced(em_get_length_result, o)


IsPrefix(s, t) == Len(s) <= Len(t) /\ s = SubSeq(t, 1, Len(s))

\* C11: for every buffer capacity n a caller passes to em_info_get or
\* em_units, when a stored text is longer than n the text returned is a
\* prefix of it of at most n characters, the library's state is unchanged,
\* the native call reports buffer_too_small and nothing is written past the
\* buffer.
C11_TruncatedNotOverflowed ==
    \A h \in Handles, n \in BuffSizes :
        /\ \A i \in InfoIndices :
            LET f == lib.data[h].info[i] IN
            (Len(f.header) > n \/ Len(f.data) > n) =>
                \A g \in em_info_get(lib, h, i, n) :
                    /\ IsPrefix(g.ret[1], f.header) /\ Len(g.ret[1]) <= n
                    /\ IsPrefix(g.ret[2], f.data) /\ Len(g.ret[2]) <= n
                    /\ g.lib = lib
                    /\ g.native = buffer_too_small
        /\ Len(lib.data[h].units) > n =>
            \A g \in em_units(lib, h, n) :
                /\ IsPrefix(g.ret, lib.data[h].units) /\ Len(g.ret) <= n
                /\ g.lib = lib
                /\ g.native = buffer_too_small
                /\ ~g.overflow


\* The operations that return the native result code.
ResultOps ==
    {"em_load_data", "tm_load_data", "em_info_set", "em_write_data"} \cup AddOps

Enumerated(u, h) ==
    UNION {Rets(em_get_unique_fgs(u.lib, h, i)) : i \in 0 .. u.ret - 1}

CountFGS(L, h, t) == Rets(em_measurement_count_fgs(L, h, t[1], t[2], t[3]))

\* The component-wise sum of the five counts over a set of triples.
RECURSIVE SumFGS(_, _, _)
SumFGS(L, h, triples) ==
    IF triples = {} THEN <<0, 0, 0, 0, 0>>
    ELSE LET t == CHOOSE x \in triples : TRUE
             c == CHOOSE x \in CountFGS(L, h, t) : TRUE
             rest == SumFGS(L, h, triples \ {t})
         IN [i \in 1 .. 5 |-> c[i] + rest[i]]

\* "*" is the family, genus or species of a record of the data set.
HasStar(d) == \E t \in Taxa(d) : Star \in {t[1], t[2], t[3]}

\* C13 (as stated): for every data set, the five counts of
\* em_measurement_count_fgs(h, "*", "*", "*") are the sums of the counts of
\* em_measurement_count_fgs(h, f, g, s) over the triples (f, g, s) listed by
\* em_unique_fgs and em_get_unique_fgs.
C13_WildcardIsSum ==
    \A h \in Handles :
        \A u \in em_unique_fgs(lib, h) :
            CountFGS(u.lib, h, <<Star, Star, Star>>)
                = {SumFGS(u.lib, h, Enumerated(u, h))}

\* C13 (amended): the same, for every data set in which no record has the
\* text "*" as its family, genus or species.
C13_WildcardIsSumWithoutStar ==
    \A h \in Handles :
        ~HasStar(lib.data[h]) =>
            \A u \in em_unique_fgs(lib, h) :
                CountFGS(u.lib, h, <<Star, Star, Star>>)
                    = {SumFGS(u.lib, h, Enumerated(u, h))}

\* The measurements of a data set with two triples, one of them empty and
\* none with a "*", were counted with three wildcards.
C13_Witness ==
    /\ call.op = "em_measurement_count_fgs"
    /\ call.arg = <<Star, Star, Star>>
    /\ call.ret[1] + call.ret[2] + call.ret[5] >= 2
    /\ Cardinality(Taxa(lib.data[call.id])) = 2
    /\ <<<<>>, <<>>, <<>>>> \in Taxa(lib.data[call.id])
    /\ ~HasStar(lib.data[call.id])


\* Family, genus and species arguments in mixed case, "*" and the empty text.
FamilyArgs == {Fa, <<"S", "q">>, Star}
GenusArgs == {Ge, Star}
SpeciesArgs == {Sp, <<>>, Star}

\* C14: em_measurement_count_fgs returns the same five counts for family,
\* genus and species arguments as given (mixed case), in upper case and in
\* lower case, for every data set.
C14_CaseInsensitive ==
    \A h \in SpecHandles :
        \A family \in FamilyArgs, genus \in GenusArgs, species \in SpeciesArgs :
            LET mixed == CountFGS(lib, h, <<family, genus, species>>)
                upper == CountFGS(lib, h,
                            <<ToUpper(family), ToUpper(genus), ToUpper(species)>>)
                lower == CountFGS(lib, h,
                            <<ToLower(family), ToLower(genus), ToLower(species)>>)
            IN mixed = upper /\ mixed = lower

\* An upper-case family counted the bounding box stored with the family in
\* lower case and the point stored with it in mixed case.
C14_Witness ==
    /\ call.op = "em_measurement_count_fgs"
    /\ call.arg[1] = ToUpper(Fa)
    /\ call.ret[1] = 1
    /\ call.ret[2] = 1
    /\ lib.data[call.id].points = <<BoxLower, PointFGS>>


\* The texts, in lower case, that occur at position p of the listed triples.
ValuesAt(u, h, p) == {t[p] : t \in Enumerated(u, h)}

\* The triple with text v at position p and the texts of args elsewhere.
Placed(args, p, v) == [args EXCEPT ![p] = v]

\* The triples of argument texts the wildcard is tried with.
ArgTriples ==
    {<<Fa, Ge, Sp>>, <<ToUpper(Fa), Star, Sp>>, <<Star, Ge, <<>>>>,
     <<<<"O", "t">>, Ge, Star>>, <<Star, Star, Star>>}

\* The count with "*" at position p is the sum of the counts over the texts
\* occurring at position p, the two other arguments held fixed.
StarIsSumAt(u, h, args, p) ==
    CountFGS(u.lib, h, Placed(args, p, Star))
        = {SumFGS(u.lib, h, {Placed(args, p, v) : v \in ValuesAt(u, h, p)})}

\* C15 (as stated): for every data set, each of family, genus and species
\* accepts "*" on its own: the counts with "*" in one position are the sums
\* of the counts over every distinct text occurring in that position, the
\* other two arguments held fixed.
C15_StarPerPosition ==
    \A h \in SpecHandles :
        \A u \in em_unique_fgs(lib, h) :
            \A args \in ArgTriples, p \in 1 .. 3 : StarIsSumAt(u, h, args, p)

\* C15 (amended): the same, for every position in which the text "*" does
\* not itself occur in a record of the data set.
C15_StarPerPositionWithoutStar ==
    \A h \in SpecHandles :
        \A u \in em_unique_fgs(lib, h) :
            \A args \in ArgTriples, p \in 1 .. 3 :
                Star \notin ValuesAt(u, h, p) => StarIsSumAt(u, h, args, p)

\* A family wildcard with genus and species fixed counted a data set that
\* holds two families with that genus and species, and no "*".
C15_Witness ==
    /\ call.op = "em_measurement_count_fgs"
    /\ call.arg = <<Star, Ge, Sp>>
    /\ call.ret[1] = 2
    /\ lib.data[call.id].points = <<PointFGS, PointOther>>


\* The text has no upper-case letter.
IsLowerCase(text) == ToLower(text) = text

\* C18: em_unique_fgs(h) returns the number of distinct lower-cased
\* (family, genus, species) triples over the point, bounding-box, 3D-point
\* and length records of h, and em_get_unique_fgs(h, i) for 0 <= i < that
\* number lists exactly those triples: one triple per index, no triple twice,
\* every text in lower case, the all-empty triple among them when a record
\* has no taxonomy.
C18_UniqueTriplesListed ==
    \A h \in SpecHandles :
        \A u \in em_unique_fgs(lib, h) :
            LET At(i) == Rets(em_get_unique_fgs(u.lib, h, i))
            IN /\ u.ret = Cardinality(Taxa(lib.data[h]))
               /\ \A i \in 0 .. u.ret - 1 : Cardinality(At(i)) = 1
               /\ Enumerated(u, h) = Taxa(lib.data[h])
               /\ \A i \in 0 .. u.ret - 1, j \in 0 .. u.ret - 1 :
                    i # j => At(i) # At(j)
               /\ \A t \in Enumerated(u, h), p \in 1 .. 3 : IsLowerCase(t[p])

\* After em_unique_fgs returned 2, index 1 was read and gave a triple stored
\* in mixed case, in lower case; the all-empty triple is the other one.
C18_Witness ==
    /\ call.op = "em_get_unique_fgs"
    /\ call.arg = 1
    /\ Len(lib.fgs[call.id]) = 2
    /\ call.ret = <<ToLower(Fa), ToLower(Ge), ToLower(Sp)>>
    /\ <<<<>>, <<>>, <<>>>> \in Taxa(lib.data[call.id])
    /\ PointFGS \in Range(lib.data[call.id].points)


\* C16: in every state of a data set, em_info_get(h, i) for i in 0..3 returns
\* the headers OpCode, TapeReader, Depth and Comment, whatever header an
\* earlier em_info_set supplied for the index; an em_info_set at such an
\* index that returned ok has changed the data text only.
C16_FixedHeaders ==
    /\ \A h \in SpecHandles, i \in 0 .. 3 :
        \A b \in em_info_get(lib, h, i, EMTM_MAX_CHARS) : b.ret[1] = FixedHeader(i)
    /\ call.op = "em_info_set" =>
        (call.ret = ok /\ call.arg[1] \in 0 .. 3 =>
            Rets(em_info_get(lib, call.id, call.arg[1], EMTM_MAX_CHARS))
                = {<<FixedHeader(call.arg[1]), call.arg[3]>>})

\* em_info_set at index 2 with a header of the caller's returned ok: the
\* field holds the data passed, under the header Depth.
C16_Witness ==
    /\ call.op = "em_info_set"
    /\ call.arg = <<2, Hdr, Val>>
    /\ call.ret = ok
    /\ lib.data[call.id].info[2] = [header |-> FixedHeader(2), data |-> Val]
    /\ Hdr # FixedHeader(2)


\* What em_info_get(b, i) returns after handle h is written to file f and f
\* is loaded at handle b, for every write and load that return ok.
RoundTrip(L, h, f, b, i) ==
    UNION {UNION {Rets(em_info_get(l.lib, b, i, EMTM_MAX_CHARS)) :
                      l \in {x \in em_load_data(w.lib, b, f) : x.ret = ok}} :
               w \in {x \in em_write_data(L, h, f) : x.ret = ok}}

\* The text has fewer than 1024 characters and no NUL among them.
Plain(text) == Len(text) < EMTM_MAX_CHARS /\ CString(text) = text

Zero(L, h) == CountsAt(L, h) = {<<<<0, 0>>, 0, <<0, 0>>>>}

\* C19: em_remove_all(), which takes no file-handle id, leaves the point,
\* 3D point and length counts 0 at every file-handle id, whatever it held,
\* and a file-handle id whose counts are 0 gets other counts only in a load
\* or an add at that id.
C19_RemoveAllClears ==
    /\ [](\A c \in em_remove_all(lib) : \A h \in Handles : Zero(c.lib, h))
    /\ [](call.op = "em_remove_all" => \A h \in Handles : Zero(lib, h))
    /\ [][\A h \in Handles :
            Zero(lib, h) /\ ~Zero(lib', h) =>
                /\ call'.op \in {"em_load_data"} \cup AddOps
                /\ call'.id = h]_vars

\* em_remove_all was called after a data set with records had been written:
\* the file holds the records, no file-handle id does.
C19_Witness ==
    /\ call.op = "em_remove_all"
    /\ lib.files["tmp"] # NoFile
    /\ Size(Contents(lib.files["tmp"])) >= 1
    /\ \A h \in Handles : Size(lib.data[h]) = 0

\* The records a caller reads at h: each count followed by the indexed gets
\* below it.
RecordsAt(L, h) ==
    [points |-> {[i \in 0 .. c.ret[1] - 1 |-> Rets(em_get_point(c.lib, h, i))] :
                    c \in em_point_count(L, h)},
     points3d |-> {[i \in 0 .. c.ret - 1 |-> Rets(em_get_3d_point(c.lib, h, i))] :
                    c \in em_3d_point_count(L, h)},
     lengths |-> {[i \in 0 .. c.ret[1] - 1 |-> Rets(em_get_length(c.lib, h, i))] :
                    c \in em_get_length_count(L, h)}]

\* The information fields a caller reads at h.
InfoAt(L, h) ==
    [i \in InfoIndices |-> Rets(em_info_get(L, h, i, EMTM_MAX_CHARS))]

\* C20: em_write_data(h, f) returns ok, failed or invalid_licence, and in
\* each case the counts, the records and the information fields read at h
\* after the call are those read before it.
C20_WriteKeepsData ==
    \A h \in Handles, f \in Paths :
        \A w \in em_write_data(lib, h, f) :
            /\ w.ret \in {ok, failed, invalid_licence}
            /\ CountsAt(w.lib, h) = CountsAt(lib, h)
            /\ RecordsAt(w.lib, h) = RecordsAt(lib, h)
            /\ InfoAt(w.lib, h) = InfoAt(lib, h)

\* A write of a data set with a record and a user information field has
\* returned ok, one has returned failed, and both have left the data set.
C20_Witness ==
    /\ call.op = "em_write_data"
    /\ call.ret = failed
    /\ Size(lib.data[call.id]) >= 1
    /\ lib.data[call.id].info[4].data = Val
    /\ lib.files["tmp"] = FileOf(lib.data[call.id])


\* What the indexed gets at h return, and the result codes of the library,
\* without a count call before them.
GetsAt(L, h) ==
    [i \in Indices |->
        <<{<<g.ret, g.native>> : g \in em_get_point(L, h, i)},
          {<<g.ret, g.native>> : g \in em_get_3d_point(L, h, i)},
          {<<g.ret, g.native>> : g \in em_get_length(L, h, i)}>>]

\* C21: em_measurement_count_fgs changes nothing: for any arguments, the
\* counts, records and information fields of every file-handle id are after
\* the call what they were before, and the indexed gets return after it
\* what they returned before it, against the mappings built earlier.
C21_CountFGSKeepsAll ==
    \A h \in Handles :
        \A family \in FamilyArgs, genus \in GenusArgs, species \in SpeciesArgs :
            \A m \in em_measurement_count_fgs(lib, h, family, genus, species) :
                \A b \in Handles :
                    /\ CountsAt(m.lib, b) = CountsAt(lib, b)
                    /\ RecordsAt(m.lib, b) = RecordsAt(lib, b)
                    /\ InfoAt(m.lib, b) = InfoAt(lib, b)
                    /\ GetsAt(m.lib, b) = GetsAt(lib, b)

\* The measurements were counted while the mappings of points and lengths
\* built by earlier count calls were in place.
C21_Witness ==
    /\ call.op = "em_measurement_count_fgs"
    /\ call.ret[1] >= 1
    /\ Len(lib.index[call.id]["point"]) >= 1
    /\ Len(lib.index[call.id]["length"]) >= 1
    /\ WellDefined(em_get_point(lib, call.id, 0))


\* C23: em_get_length_count(h) returns (total, compound): total is the
\* number of length records at h, compound lengths included, compound the
\* number of compound lengths among them, which is the cpd_length count of
\* em_measurement_count_fgs(h, "*", "*", "*").
C23_LengthCountCompound ==
    \A h \in SpecHandles :
        \A c \in em_get_length_count(lib, h) :
            /\ c.ret[1] = Len(lib.data[h].lengths)
            /\ c.ret[2] = CountOf(lib.data[h].lengths, IsCompound)
            /\ \A m \in em_measurement_count_fgs(c.lib, h, Star, Star, Star) :
                c.ret[2] = m.ret[5]


\* C30: in every state, with (p, b, x, l, c) the five counts of
\* em_measurement_count_fgs(h, "*", "*", "*"), em_point_count(h) returns
\* (p + b, b), em_3d_point_count(h) returns x and the total of
\* em_get_length_count(h) is l + c.
C30_CountsAgree ==
    \A h \in SpecHandles :
        \A m \in em_measurement_count_fgs(lib, h, Star, Star, Star) :
            /\ Rets(em_point_count(m.lib, h)) = {<<m.ret[1] + m.ret[2], m.ret[2]>>}
            /\ Rets(em_3d_point_count(m.lib, h)) = {m.ret[3]}
            /\ \A c \in em_get_length_count(m.lib, h) :
                c.ret[1] = m.ret[4] + m.ret[5]

\* All measurements were counted in a data set that holds a compound length
\* and a point.
C30_Witness ==
    /\ call.op = "em_measurement_count_fgs"
    /\ call.arg = <<Star, Star, Star>>
    /\ call.ret[5] = 1
    /\ call.ret[1] + call.ret[2] = 1
    /\ Size(lib.data[call.id]) = 2


\* The counts of the two other kinds and the information fields are the same
\* at h in L and in M.
SameButPoints(L, M, h) ==
    /\ Rets(em_3d_point_count(M, h)) = Rets(em_3d_point_count(L, h))
    /\ Rets(em_get_length_count(M, h)) = Rets(em_get_length_count(L, h))
    /\ InfoAt(M, h) = InfoAt(L, h)

SameBut3DPoints(L, M, h) ==
    /\ Rets(em_point_count(M, h)) = Rets(em_point_count(L, h))
    /\ Rets(em_get_length_count(M, h)) = Rets(em_get_length_count(L, h))
    /\ InfoAt(M, h) = InfoAt(L, h)

SameButLengths(L, M, h) ==
    /\ Rets(em_point_count(M, h)) = Rets(em_point_count(L, h))
    /\ Rets(em_3d_point_count(M, h)) = Rets(em_3d_point_count(L, h))
    /\ InfoAt(M, h) = InfoAt(L, h)

\* C28: an em_add_point at h that returns ok raises the total of
\* em_point_count(h) by exactly 1 and the bounding-box count by at most 1,
\* and leaves em_3d_point_count(h), em_get_length_count(h) and the
\* information fields of h as they were; an em_add_3d_point or em_add_length
\* that returns ok raises the count of its own kind by exactly 1 and leaves
\* the other counts and the information fields.
C28_AddCountsOne ==
    \A h \in SpecHandles :
        /\ \A d \in PointInputs : \A a \in em_add_point(lib, h, d) :
            a.ret = ok =>
                /\ \A p \in em_point_count(lib, h), q \in em_point_count(a.lib, h) :
                    /\ q.ret[1] = p.ret[1] + 1
                    /\ q.ret[2] - p.ret[2] \in {0, 1}
                /\ SameButPoints(lib, a.lib, h)
        /\ \A d \in Point3DInputs : \A a \in em_add_3d_point(lib, h, d) :
            a.ret = ok =>
                /\ \A p \in em_3d_point_count(lib, h), q \in em_3d_point_count(a.lib, h) :
                    q.ret = p.ret + 1
                /\ SameBut3DPoints(lib, a.lib, h)
        /\ \A d \in LengthInputs : \A a \in em_add_length(lib, h, d) :
            a.ret = ok =>
                /\ \A p \in em_get_length_count(lib, h),
                      q \in em_get_length_count(a.lib, h) :
                    q.ret[1] = p.ret[1] + 1
                /\ SameButLengths(lib, a.lib, h)

\* A bounding box was added to a data set that holds a record of another
\* kind, and the add returned ok.
C28_Witness ==
    /\ call.op = "em_add_point"
    /\ call.ret = ok
    /\ IsBox(call.arg)
    /\ Len(lib.data[call.id].points) = 1
    /\ Len(lib.data[call.id].lengths) = 1

\* C29: an add that returns failed leaves the data set at h as it was: the
\* counts of every kind, every record, the information fields and the
\* operation code of the records are after it what they were before, and
\* every add that would have returned ok before it returns ok after it.
C29_FailedAddKeepsData ==
    \A h \in SpecHandles :
        \A a \in UNION {em_add_point(lib, h, d) : d \in PointInputs}
                    \cup UNION {em_add_3d_point(lib, h, d) : d \in Point3DInputs}
                    \cup UNION {em_add_length(lib, h, d) : d \in LengthInputs} :
            a.ret = failed =>
                /\ CountsAt(a.lib, h) = CountsAt(lib, h)
                /\ RecordsAt(a.lib, h) = RecordsAt(lib, h)
                /\ InfoAt(a.lib, h) = InfoAt(lib, h)
                /\ ReadOpCodes(a.lib, h) = ReadOpCodes(lib, h)
                /\ \A v \in ValidPoints :
                    Rets(em_add_point(a.lib, h, v)) = Rets(em_add_point(lib, h, v))
                /\ \A v \in Valid3DPoints :
                    Rets(em_add_3d_point(a.lib, h, v)) = Rets(em_add_3d_point(lib, h, v))
                /\ \A v \in ValidLengths :
                    Rets(em_add_length(a.lib, h, v)) = Rets(em_add_length(lib, h, v))

\* An add of a compound length returned failed at a data set that holds a
\* point, and the valid add of a length that followed returned ok.
C29_Witness ==
    /\ call.op = "em_add_length"
    /\ call.ret = ok
    /\ lib.data[call.id].lengths = <<LengthA1>>
    /\ Len(lib.data[call.id].points) = 1
    /\ \E a \in em_add_length(lib, call.id, [LengthA2 EXCEPT !.b_compound_length = TRUE]) :
        a.ret = failed


\* The library states the operations that change the data set at a can
\* leave: loads, create, the adds and em_info_set.
Libs(outcomes) == {o.lib : o \in outcomes}

ChangesAt(L, a) ==
    UNION {Libs(em_load_data(L, a, f)) : f \in Paths}
        \cup Libs(em_create(L, a))
        \cup UNION {Libs(em_add_point(L, a, d)) : d \in FilePoints}
        \cup UNION {Libs(em_add_3d_point(L, a, d)) : d \in File3DPoints}
        \cup UNION {Libs(em_add_length(L, a, d)) : d \in FileLengths}
        \cup UNION {Libs(em_info_set(L, a, i, Hdr, Val, EMTM_MAX_CHARS)) :
                        i \in InfoIndices}

\* C22: every file-handle id has a data set of its own: em_load_data,
\* em_create, the adds and em_info_set at a leave the counts, the records
\* and the information fields read at every other id b as they were.  The
\* licence is one for all ids: a load is refused with invalid_licence at
\* one id exactly when it is at the other, and none of these operations
\* changes what emtm_licence_present returns.
C22_HandlesIndependent ==
    /\ \A a \in Handles : \A b \in Handles \ {a} :
        \A M \in ChangesAt(lib, a) :
            /\ CountsAt(M, b) = CountsAt(lib, b)
            /\ RecordsAt(M, b) = RecordsAt(lib, b)
            /\ InfoAt(M, b) = InfoAt(lib, b)
            /\ Rets(emtm_licence_present(M)) = Rets(emtm_licence_present(lib))
    /\ \A a \in Handles, b \in Handles, f \in Paths :
        (invalid_licence \in Rets(em_load_data(lib, a, f)))
            <=> (invalid_licence \in Rets(em_load_data(lib, b, f)))

\* An information field was set at id 1 while id 0 holds records and another
\* text in that field.
C22_Witness ==
    /\ call.op = "em_info_set"
    /\ call.id = 1
    /\ call.ret = ok
    /\ Size(lib.data[0]) >= 1
    /\ lib.data[0].info[4].data = <<>>
    /\ lib.data[1].info[4].data = Val
    /\ Size(lib.data[1]) = 0


\* C25: emtm_licence_present can be called in every state and changes
\* nothing, and once an emtm_set_licence_keys call has returned true (1) it
\* returns true in every later state, whatever loads, creates, adds, writes
\* and clears follow.
C25_LicenceStays ==
    /\ [](/\ emtm_licence_present(lib) # {}
          /\ \A o \in emtm_licence_present(lib) : o.lib = lib)
    /\ [](call.op = "emtm_set_licence_keys" =>
            (call.ret = 1 => Rets(emtm_licence_present(lib)) = {TRUE}))
    /\ [][Rets(emtm_licence_present(lib)) = {TRUE} =>
            Rets(emtm_licence_present(lib')) = {TRUE}]_vars

\* With the keys accepted earlier, a point was added and written, the data
\* sets were cleared, and emtm_licence_present then returned true.
C25_Witness ==
    /\ call.op = "emtm_licence_present"
    /\ call.ret = TRUE
    /\ lib.files["tmp"] # NoFile
    /\ Size(Contents(lib.files["tmp"])) = 1
    /\ \A h \in Handles : Size(lib.data[h]) = 0


\* Indices tried against the count of information fields.
InfoProbes == 0 .. 6

\* C24: the number em_info_count returns for the data set at h is the upper
\* bound of its information field indices: with data sets of different
\* numbers of fields at the two file-handle ids, the indices EMInfoGet
\* accepts at h are those below the count obtained for h.
C24_InfoCountBounds ==
    \A h \in Handles :
        \A c \in em_info_count(lib) :
            \A i \in InfoProbes :
                i < c.ret <=> WellDefined(em_info_get(c.lib, h, i, EMTM_MAX_CHARS))


\* C27: _dataframe_from_count_and_record_reader(count, read) returns None
\* without calling read when count = 0, raises ValueError without calling
\* read when count < 0, and for count > 0 calls read with index 0 and then
\* with 0 .. count - 1 in ascending order, with no other index, and returns
\* a table of exactly count rows, row j holding the public fields of
\* read(j).
C27_DataFrameRows ==
    call.op = "_dataframe_from_count_and_record_reader" =>
        LET count == call.arg.count
            read == call.arg.record_read_function
            r == call.ret
        IN /\ count = 0 =>
                r.raised = None /\ r.returned = None /\ r.reads = <<>>
           /\ count < 0 =>
                r.raised = "ValueError" /\ r.reads = <<>>
           /\ count > 0 =>
                /\ r.raised = None /\ r.returned = "DataFrame"
                /\ r.reads = <<0>> \o [j \in 1 .. count |-> j - 1]
                /\ \A k \in 1 .. Len(r.reads) : r.reads[k] \in 0 .. count - 1
                /\ Len(r.xpdf.rows) = count
                /\ \A j \in 0 .. count - 1 :
                    \A ii \in 1 .. Len(r.xpdf.columns) :
                        /\ ~StartsWithUnderscore(r.xpdf.columns[ii])
                        /\ r.xpdf.rows[j + 1][ii] = read[j][r.xpdf.columns[ii]]
                /\ Range(r.xpdf.columns) = {"n_frame", "str_filename"}

\* A table of three rows was built from a reader whose structures differ
\* from index to index.
C27_Witness ==
    /\ call.op = "_dataframe_from_count_and_record_reader"
    /\ call.arg.count = 3
    /\ call.arg.record_read_function[0] # call.arg.record_read_function[1]
    /\ call.arg.record_read_function[2] # call.arg.record_read_function[3]
    /\ Len(call.ret.xpdf.rows) = 3


\* C26 as stated: with the callers serializing per file-handle id, no indexed
\* read of a count-then-read sequence on h can meet an invalidated snapshot or
\* an index at or past the current count of h: while caller t's sequence
\* <<h, n>> is in progress the current count of h is n and every get at an
\* index below n is well defined and returns the record held there.
SequenceSafe(h, n) ==
    /\ \A g \in em_point_count(lib, h) : g.ret[1] = n
    /\ \A i \in 0 .. n - 1 :
        /\ WellDefined(em_get_point(lib, h, i))
        /\ Rets(em_get_point(lib, h, i)) = {lib.data[h].points[i + 1]}

C26_PerHandleLocksSuffice ==
    \A t \in Callers : \A q \in callers.seq[t] : SequenceSafe(q[1], q[2])

\* C26 amended: the same holds as long as em_remove_all has only been called
\* by a caller that held the lock of every file-handle id.
C26_LocksSufficeWithRemoveAllUnderEveryLock ==
    ~callers.loose => \A t \in Callers : \A q \in callers.seq[t] : SequenceSafe(q[1], q[2])

\* Caller c1 reads a point of its sequence on handle 0 while caller c2
\* holds the lock of handle 1 and has added a point there.
C26_Witness ==
    /\ ~callers.loose
    /\ callers.lock[0] = "c1" /\ callers.lock[1] = "c2"
    /\ <<0, 1>> \in callers.seq["c1"]
    /\ Len(lib.data[1].points) = 1
    /\ call.op = "em_get_point" /\ call.id = 0 /\ call.native = ok

=============================================================================
